---------------------------- MODULE Spec2Model ----------------------------
(***************************************************************************)
(* Model of the faucet operation facade and of the resilient transaction   *)
(* executor of src/lib/faucet.ts (estimateGasWithFallback,                 *)
(* safeWaitForReceipt and the exported operations that use them).          *)
(*                                                                         *)
(* One facade invocation runs at a time (the code is a chain of awaits);   *)
(* pc is the await the invocation is suspended at.  The wallet, the RPC    *)
(* provider and the chain are the environment: their answers are chosen    *)
(* nondeterministically at the step that asks for them.                    *)
(***************************************************************************)
EXTENDS Integers, Sequences, FiniteSets, Bags, TLC

(***************************************************************************)
(* Bounds of the model.                                                    *)
(***************************************************************************)
MaxAmount == 2
MaxEstimateStep == 1

(***************************************************************************)
(* Program constants.                                                      *)
(***************************************************************************)
MaxPollAttempts == 30
PollIntervalMs == 2000
CeloChainId == 42220
LiskChainId == 1135
GasBufferNumerator == 120
GasBufferDenominator == 100

ChainIds == {CeloChainId, LiskChainId}

Dialects == {"dropcode", "droplist", "custom"}

AdminOps == {"fundFaucet", "withdrawTokens", "setWhitelistBatch",
             "setCustomClaimAmountsBatch", "resetAllClaims",
             "setClaimParameters", "updateFaucetName", "deleteFaucet",
             "addAdmin", "removeAdmin", "storeClaim", "resetClaimedStatus"}

CreateOps == {"createFaucet", "createFaucetWithValidation", "createCustomFaucet"}

Ops == AdminOps \cup CreateOps

\* provider.estimateGas either throws or returns an estimate
EstimateThrows == -1
Estimates == {0, 21000} \cup {k * 5250000 : k \in 1..MaxEstimateStep}
Amounts == 0..MaxAmount

VARIABLES
  pc,             \* await point of the running invocation
  op,             \* the facade operation invoked
  chainId,        \* argument chainId
  networkId,      \* argument networkId
  isEther,        \* argument isEther of fundFaucet
  amount,         \* argument amount of fundFaucet
  currentAllowance, \* tokenContract.allowance(...) as read by fundFaucet
  detectedFaucetType, \* faucetType || detectFaucetType(...)
  stage,          \* which transaction of the operation is being executed
  estimated,      \* what provider.estimateGas answered for this transaction
  gasLimit,       \* the gasLimit handed to signer.sendTransaction
  sentTxs,        \* the calls of signer.sendTransaction, in order
  walletBlocksReceipts, \* the wallet rejects every eth_getTransactionReceipt
  signerAddress,  \* signer.getAddress() of the connected wallet
  onChain,        \* owner(), getAllAdmins(), paused() of the faucet contract
  waitError,      \* the error tx.wait() threw, kept by the catch block
  attempts,       \* loop counter of safeWaitForReceipt
  sleeps,         \* number of 2 s timeouts awaited by the polling loop
  polls,          \* number of provider.getTransactionReceipt calls of the loop
  receipt,        \* status of the receipt safeWaitForReceipt returned
  executorError,  \* the error safeWaitForReceipt threw
  divvi,          \* number of reportTransactionToDivvi calls that returned
  offchain,       \* what the off-chain steps after the last receipt met
  outcome,        \* "none", "resolved" or "rejected"
  result,         \* the value the promise resolved with
  error           \* message of the Error the promise rejected with

\* the dialect detectors (detectFaucetType, detectFactoryType)
VARIABLES
  target,         \* what is probed: "faucet", "factory" or "none"
  accessors,      \* the functions the probed faucet contract answers
  rpcFails,       \* the probes <<abi, function>> that meet an RPC error
  abiForeign,     \* the dropcode ABI also declares the other dialects' accessors
  factoryAnswers, \* per factory ABI, what the staticCall of its create function meets
  detections,     \* what the detector returned, run after run
  rpcLog          \* the JSON-RPC methods the detector has issued

facadeVars == <<pc, op, chainId, networkId, isEther, amount, currentAllowance,
                detectedFaucetType, stage, estimated, gasLimit, sentTxs,
                walletBlocksReceipts, signerAddress, onChain, waitError, attempts, sleeps, polls, receipt,
                executorError, divvi, offchain, outcome, result, error>>

detectorVars == <<target, accessors, rpcFails, abiForeign, factoryAnswers,
                  detections, rpcLog>>

\* the browser-persisted caches (localStorage) and their readers
VARIABLES
  now,            \* Date.now(), in ms since the page was loaded
  storage,        \* localStorage, by key
  currentBlock,   \* provider.getBlockNumber() of the check-in chain
  served,         \* what the last reader call returned, and from where
  calls           \* the bag of fetchCheckInData invocations that are at an await

cacheVars == <<now, storage, currentBlock, served, calls>>

\* the fan-out of detail requests of the list readers
VARIABLES
  fetcher,        \* the function that fans out ("none": not called yet)
  items,          \* number of faucets (claims) it has to fetch details for
  started,        \* detail requests issued so far
  settled,        \* detail requests that have settled (fulfilled or rejected)
  delayed         \* the 100 ms pause after the last batch has been awaited

batchVars == <<fetcher, items, started, settled, delayed>>

\* the in-memory cache of faucet details of the claim readers
VARIABLES
  faucetDetailsCache, \* the keys of the Map faucetDetailsCache
  detailsServed       \* the last lookup of faucet details: its key and source

claimsVars == <<faucetDetailsCache, detailsServed>>

\* the wallet session (the WalletProvider components and ensureCorrectNetwork)
VARIABLES
  variant,        \* which of the four wallet-session sources is mounted
  wallet,         \* the wallet backend: its authorised account and active chain
  session,        \* the React state the session exposes
  pendingSigners, \* accounts whose provider.getSigner() has not settled yet
  ensure          \* the running (or last) ensureCorrectNetwork call

walletVars == <<variant, wallet, session, pendingSigners, ensure>>

\* the state the facade operations never touch (deleteFaucet aside, which
\* deletes from faucetDetailsCache)
otherVars == <<detectorVars, cacheVars, batchVars, claimsVars, walletVars>>

vars == <<facadeVars, otherVars>>

(***************************************************************************)
(* Errors of the collaborators (ethers / EIP-1193), by what the code reads *)
(* of them: message, the substrings the code searches the message for,     *)
(* code and reason.                                                        *)
(***************************************************************************)
ErrorIds == {"E_UNSUPPORTED", "E_UNKNOWN", "E_REVERT", "E_NETWORK", "E_REJECTED"}

ErrorMessage(e) ==
  CASE e = "E_UNSUPPORTED" -> "The Provider does not support the requested method: eth_getTransactionReceipt"
    [] e = "E_UNKNOWN"     -> "could not coalesce error"
    [] e = "E_REVERT"      -> "transaction execution reverted"
    [] e = "E_NETWORK"     -> "network changed: 1135 => 42220"
    [] e = "E_REJECTED"    -> "user rejected action"
    [] e = "E_FETCH"       -> "Failed to fetch"
    [] e = "E_CUSTOM"      -> "execution reverted (unknown custom error)"
    [] OTHER               -> ""

\* the substrings (among those the code looks for) contained in the message
ErrorWords(e) ==
  CASE e = "E_UNSUPPORTED" -> {"support", "eth_getTransactionReceipt"}
    [] e = "E_NETWORK"     -> {"network changed"}
    [] OTHER               -> {}

ErrorCode(e) ==
  CASE e = "E_UNSUPPORTED" -> "4200"
    [] e = "E_UNKNOWN"     -> "UNKNOWN_ERROR"
    [] e = "E_REVERT"      -> "CALL_EXCEPTION"
    [] e = "E_NETWORK"     -> "NETWORK_ERROR"
    [] e = "E_REJECTED"    -> "ACTION_REJECTED"
    [] e = "E_CUSTOM"      -> "CALL_EXCEPTION"
    [] OTHER               -> ""

ErrorReason(e) ==
  CASE e = "E_REJECTED" -> "rejected"
    [] OTHER            -> ""

\* msg.includes(word)
Includes(e, word) == word \in ErrorWords(e)


(***************************************************************************)
(* Revert data and its decoder.  The data of a revert is the 4-byte        *)
(* selector of the error followed by its encoded arguments.                *)
(***************************************************************************)
\* const ERROR_SIGNATURES
ErrorSignatures ==
  [OwnableUnauthorizedAccount |-> "0x118cdaa7",
   ContractPaused             |-> "0xbec6425c",
   OnlyAdmin                  |-> "0x9b23d3d9",
   EmptyName                  |-> "0xe8930e56",
   UnknownError               |-> "0xab35696f",
   NotWhitelisted             |-> "0x55f33f14"]

\* the selectors a revert can carry: the known ones and one of another error
Selectors ==
  {ErrorSignatures[k] : k \in DOMAIN ErrorSignatures} \cup {"0x4e487b71"}

NoRevertData == [selector |-> "none", args |-> ""]

RevertDatas ==
  {NoRevertData} \cup [selector : Selectors, args : {"", "000000000000000000000000a1"}]

\* data.startsWith(signature)
StartsWith(data, signature) == data.selector = signature

\* decodeRevertError(data)
decodeRevertError(data) ==
  IF StartsWith(data, ErrorSignatures.OwnableUnauthorizedAccount)
    THEN "Only the faucet owner can perform this action"
  ELSE IF StartsWith(data, ErrorSignatures.ContractPaused)
    THEN "Faucet is paused and cannot be modified"
  ELSE IF StartsWith(data, ErrorSignatures.OnlyAdmin)
    THEN "Only an admin can perform this action"
  ELSE IF StartsWith(data, ErrorSignatures.EmptyName)
    THEN "Faucet name cannot be empty"
  ELSE IF StartsWith(data, ErrorSignatures.NotWhitelisted)
    THEN "Only whitelisted addresses are supported"
  ELSE IF StartsWith(data, ErrorSignatures.UnknownError)
    THEN "Permission denied or invalid state (verify contract ABI and state)"
  ELSE "Unknown contract error occurred"

(***************************************************************************)
(* Pure helpers of src/lib/faucet.ts.                                      *)
(***************************************************************************)
\* variant of checkNetwork that compares the active chain with itself
checkNetworkSelfCompare(c, n) == c = c

checkNetwork(c, n) == c = n

isCeloNetwork(c) == c = CeloChainId

\* variant of estimateGasWithFallback that forgets the 20 % buffer
estimateGasWithoutBuffer(est, fallbackGas) ==
  IF est # EstimateThrows THEN est ELSE fallbackGas

\* variant of estimateGasWithFallback whose catch block returns no limit
estimateGasWithoutFallback(est, fallbackGas) ==
  IF est # EstimateThrows
    THEN (est * GasBufferNumerator) \div GasBufferDenominator
    ELSE 0

\* estimateGasWithFallback: the estimate plus 20 % (BigInt division), or the
\* fallback when provider.estimateGas threw
estimateGasWithFallback(est, fallbackGas) ==
  IF est # EstimateThrows
    THEN (est * GasBufferNumerator) \div GasBufferDenominator
    ELSE fallbackGas

\* the third argument of each estimateGasWithFallback call
FallbackGas(o, st) ==
  CASE o = "fundFaucet" /\ st = "native"   -> 100000
    [] o = "fundFaucet" /\ st = "reset"    -> 100000
    [] o = "fundFaucet" /\ st = "approve"  -> 200000
    [] o = "fundFaucet" /\ st = "fund"     -> 300000
    [] o = "withdrawTokens"                -> 300000
    [] o = "setWhitelistBatch"             -> 5000000
    [] o = "setCustomClaimAmountsBatch"    -> 5000000
    [] o = "resetAllClaims"                -> 1000000
    [] o = "setClaimParameters"            -> 500000
    [] o = "updateFaucetName"              -> 300000
    [] o = "deleteFaucet"                  -> 500000
    [] o = "addAdmin"                      -> 300000
    [] o = "removeAdmin"                   -> 300000
    [] o = "storeClaim"                    -> 300000
    [] o = "resetClaimedStatus"            -> 500000
    [] o \in CreateOps                     -> 1500000

\* the operations whose body calls checkNetwork(chainId, networkId)
NetworkChecked(o) ==
  o \in {"fundFaucet", "withdrawTokens", "setWhitelistBatch",
         "setCustomClaimAmountsBatch", "resetAllClaims", "setClaimParameters",
         "updateFaucetName", "deleteFaucet", "addAdmin", "removeAdmin",
         "storeClaim", "resetClaimedStatus"}

\* the message of the Error thrown when checkNetwork answers false
NetworkMismatchMessage(o) ==
  IF o \in {"fundFaucet", "withdrawTokens", "setWhitelistBatch",
            "setCustomClaimAmountsBatch", "resetAllClaims", "setClaimParameters"}
    THEN "Switch to the network to perform operation"
    ELSE "Switch network"

NetworkMismatchMessages ==
  {"Switch to the network to perform operation", "Switch network"}

\* the last operand of  error.reason || error.message || "..."
DefaultMessage(o) ==
  CASE o = "fundFaucet"                 -> "Failed to fund faucet"
    [] o = "withdrawTokens"             -> "Failed to withdraw tokens"
    [] o = "setWhitelistBatch"          -> "Failed to set whitelist batch"
    [] o = "setCustomClaimAmountsBatch" -> "Failed to set custom amounts"
    [] o = "resetAllClaims"             -> "Failed to reset all claims"
    [] o = "setClaimParameters"         -> "Failed to set parameters"
    [] o = "updateFaucetName"           -> "Failed to update name"
    [] o = "deleteFaucet"               -> "Failed to delete faucet"
    [] o = "addAdmin"                   -> "Failed to add admin"
    [] o = "removeAdmin"                -> "Failed to remove admin"
    [] o = "storeClaim"                 -> "Failed to store claim"
    [] o = "resetClaimedStatus"         -> "Failed to reset claimed status"
    [] o = "createCustomFaucet"         -> "Failed to deploy custom faucet"
    [] OTHER                            -> "Failed to create faucet"

\* catch (error) { throw new Error(error.reason || error.message || default) }
WrapError(o, e) ==
  IF o = "createFaucetWithValidation" /\ Includes(e, "network changed")
    THEN "Network changed during transaction."
    ELSE IF ErrorReason(e) # "" THEN ErrorReason(e)
    ELSE IF ErrorMessage(e) # "" THEN ErrorMessage(e)
    ELSE DefaultMessage(o)

\* variant that starts the polling after every error of tx.wait()
isCompatibilityErrorAlways(e) == e # "none"

(***************************************************************************)
(* Addresses are hex strings whose letters may be in either case.          *)
(***************************************************************************)
\* String.prototype.toLowerCase on the addresses of the model
toLowerCase(a) ==
  CASE a = "0xAB" -> "0xab"
    [] a = "0xCD" -> "0xcd"
    [] OTHER      -> a

\* signer.getAddress() answers the checksummed (mixed-case) address
SignerAddress == "0xAB"

\* what owner(), getAllAdmins() and paused() answer; readable = FALSE when
\* one of the three reads throws
FaucetStates ==
  [owner    : {"0xab", "0xCD"},
   admins   : {{}, {"0xab"}, {"0xCD"}},
   paused   : BOOLEAN,
   readable : BOOLEAN]

NoFaucetState ==
  [owner |-> "0xab", admins |-> {}, paused |-> FALSE, readable |-> TRUE]

\* variant that compares the addresses as they are written
checkPermissionsCaseSensitive(chain, callerAddress) ==
  IF ~chain.readable
    THEN [failed |-> TRUE, isOwner |-> FALSE, isAdmin |-> FALSE, isPaused |-> FALSE]
    ELSE [failed   |-> FALSE,
          isOwner  |-> chain.owner = callerAddress,
          isAdmin  |-> \E admin \in chain.admins : admin = callerAddress,
          isPaused |-> chain.paused]

\* checkPermissions(provider, faucetAddress, callerAddress, faucetType);
\* failed: the catch block throws "Failed to check permissions"
checkPermissions(chain, callerAddress) ==
  IF ~chain.readable
    THEN [failed |-> TRUE, isOwner |-> FALSE, isAdmin |-> FALSE, isPaused |-> FALSE]
    ELSE [failed   |-> FALSE,
          isOwner  |-> toLowerCase(chain.owner) = toLowerCase(callerAddress),
          isAdmin  |-> \E admin \in chain.admins :
                          toLowerCase(admin) = toLowerCase(callerAddress),
          isPaused |-> chain.paused]

\* setClaimParameters: the two throws that follow checkPermissions
PermissionGate(permissions) ==
  IF permissions.failed THEN "failed"
  ELSE IF permissions.isPaused THEN "paused"
  ELSE IF ~permissions.isOwner /\ ~permissions.isAdmin THEN "unauthorized"
  ELSE "ok"

\* the condition of the catch block of safeWaitForReceipt
isCompatibilityError(e) ==
  \/ Includes(e, "support")
  \/ Includes(e, "eth_getTransactionReceipt")
  \/ ErrorCode(e) = "4200"
  \/ ErrorCode(e) = "UNKNOWN_ERROR"

\* variant of the loop condition that is off by one
LoopContinuesInclusive(a) == a <= MaxPollAttempts

\* while (attempts < 30)
LoopContinues(a) == a < MaxPollAttempts

\* variant that throws a fresh timeout error when the loop ends
ErrorAfterPollingTimeout(original) == "E_TIMEOUT"

\* what safeWaitForReceipt throws when the loop ends without a receipt
ErrorAfterPolling(original) == original

\* if (receipt) return receipt  -- the status of the receipt is not read
PollAccepts(status) == status \in {"success", "reverted"}

\* the provider safeWaitForReceipt polls: the facade passes the very
\* BrowserProvider (the wallet) it took the signer from
PollProvider == "wallet"

\* variant of the allowance test that resets whenever it approves
StageAfterAllowanceAlwaysReset(allowance, amt) ==
  IF allowance < amt THEN "reset" ELSE "fund"

\* fundFaucet: the transaction to run once the allowance is known
StageAfterAllowance(allowance, amt) ==
  IF allowance < amt
    THEN IF allowance > 0 THEN "reset" ELSE "approve"
    ELSE "fund"

\* fundFaucet: the transaction that follows a confirmed one ("none": return)
NextStage(st) ==
  CASE st = "reset"   -> "approve"
    [] st = "approve" -> "fund"
    [] OTHER          -> "none"

\* const detectedFaucetType = faucetType || await detectFaucetType(...)
ResolveDialect(hint, detected) == IF hint # "none" THEN hint ELSE detected

\* variant without the dialect test of resetClaimedStatus
RequiredDialectExceptReset(o) ==
  CASE o = "setWhitelistBatch"          -> "droplist"
    [] o = "setCustomClaimAmountsBatch" -> "custom"
    [] OTHER                            -> "any"

\* setWhitelistBatch / setCustomClaimAmountsBatch / resetClaimedStatus
RequiredDialect(o) ==
  CASE o = "setWhitelistBatch"          -> "droplist"
    [] o = "setCustomClaimAmountsBatch" -> "custom"
    [] o = "resetClaimedStatus"         -> "dropcode"
    [] OTHER                            -> "any"

\* the operations that branch on the dialect (the others only pick the ABI
\* of a function every dialect has, so the dialect is not tracked for them)
BranchesOnDialect(o) ==
  o \in {"setWhitelistBatch", "setCustomClaimAmountsBatch",
         "resetClaimedStatus", "setClaimParameters"}

DialectMismatchMessage(o) ==
  CASE o = "setWhitelistBatch"          -> "Whitelist only for droplist faucets"
    [] o = "setCustomClaimAmountsBatch" -> "Only for custom faucets"
    [] OTHER                            -> "Only for dropcode faucets"

LastTx == sentTxs[Len(sentTxs)]

\* no off-chain step has run
NoOffchain == [metadata |-> "none", report |-> "none", cacheDeleted |-> FALSE]

(***************************************************************************)
(* localStorage and the clock.                                             *)
(***************************************************************************)
\* const CACHE_DURATION = 60 * 60 * 1000
CACHE_DURATION == 3600000

\* the clock advances in steps of half the cache duration
TickMs == CACHE_DURATION \div 2
MaxTicks == 3
MaxBlock == 2
MaxCalls == 2

\* the blocks of the check-in chain; every block holds one CheckedIn event,
\* of a user and a date of its own
Blocks == 1..MaxBlock

\* transactionsByDate = {}: no event counted
NoCounts == [b \in Blocks |-> 0]

\* getItem answers null for a key never written
NoEntry == [present |-> FALSE, writtenAt |-> 0, wellFormed |-> FALSE]

\* the keys of STORAGE_KEYS the readers use, and secretCode_<faucet>
EmptyStorage ==
  [CACHE_TIMESTAMP    |-> 0,
   STORAGE_DATA       |-> NoEntry,
   CHECKIN_DATA       |-> [present |-> FALSE, writtenAt |-> 0, wellFormed |-> FALSE,
                           transactionsByDate |-> NoCounts],
   CHECKIN_LAST_BLOCK |-> 0,
   secretCode         |-> NoEntry]

\* the faucet the facade operations and the lookups are about
FaucetAddress == "0xfa"

\* const cacheKey = `${network.chainId}-${claim.faucet}`; a key is kept as the
\* pair of its prefix and its address, prefix 0 for a key that is an address
\* and nothing else
CacheKey(c, f) == [prefix |-> c, address |-> f]
BareKey(f) == [prefix |-> 0, address |-> f]

\* faucetDetailsCache.delete(faucetAddress): the key deleteFaucet deletes
DeletedKey(c, f) == BareKey(f)

\* Map.prototype.delete
MapDelete(map, key) == map \ {key}

NoDetailsServed == [key |-> BareKey("none"), from |-> "none"]

NothingServed == [fn |-> "none", from |-> "none", age |-> 0, at |-> 0]

(***************************************************************************)
(* Initial state: no invocation yet.                                       *)
(***************************************************************************)
FacadeIdle ==
  /\ pc = "idle"
  /\ op = "none"
  /\ chainId = CeloChainId
  /\ networkId = CeloChainId
  /\ isEther = FALSE
  /\ amount = 0
  /\ currentAllowance = 0
  /\ detectedFaucetType = "none"
  /\ stage = "none"
  /\ estimated = EstimateThrows
  /\ gasLimit = 0
  /\ sentTxs = <<>>
  /\ walletBlocksReceipts = FALSE
  /\ signerAddress = SignerAddress
  /\ onChain = NoFaucetState
  /\ waitError = "none"
  /\ attempts = 0
  /\ sleeps = 0
  /\ polls = 0
  /\ receipt = "none"
  /\ executorError = "none"
  /\ divvi = 0
  /\ offchain = NoOffchain
  /\ outcome = "none"
  /\ result = "none"
  /\ error = ""

\* no detector run yet, nothing to probe
DetectorIdle ==
  /\ target = "none"
  /\ accessors = {}
  /\ rpcFails = {}
  /\ abiForeign = FALSE
  /\ factoryAnswers = [t \in Dialects |-> "ok"]
  /\ detections = <<>>
  /\ rpcLog = {}

\* an empty localStorage; the clock is past zero, as Date.now() is
CacheIdle ==
  /\ now = TickMs
  /\ storage = EmptyStorage
  /\ currentBlock = 1
  /\ served = NothingServed
  /\ calls = EmptyBag

\* no list reader has been called
BatchIdle ==
  /\ fetcher = "none"
  /\ items = 0
  /\ started = 0
  /\ settled = 0
  /\ delayed = FALSE

\* const faucetDetailsCache = new Map()
ClaimsIdle ==
  /\ faucetDetailsCache = {}
  /\ detailsServed = NoDetailsServed

\* the four sources of a wallet session: components/wallet-provider.tsx
\* (wagmi-backed, and the MiniApp SDK one), unnamed/part_002, lib/utils.ts
Variants == {"wagmi", "miniapp", "farcaster", "injected"}

Accounts == {"alice", "bob"}

\* the state of the session once its mount effect has run, for a wallet
\* whose authorised account is a ("none": none) and whose chain is c
MountedSession(v, a, c) ==
  CASE v = "wagmi"     -> [provider |-> FALSE, signer |-> "none", address |-> a,
                           chainId |-> c, isReady |-> FALSE]
    [] v = "miniapp"   -> [provider |-> TRUE, signer |-> a, address |-> a,
                           chainId |-> c, isReady |-> TRUE]
    [] v = "farcaster" -> [provider |-> TRUE, signer |-> a, address |-> a,
                           chainId |-> c, isReady |-> FALSE]
    [] OTHER           -> [provider |-> FALSE, signer |-> "none", address |-> "none",
                           chainId |-> 0, isReady |-> FALSE]

NoEnsure == [pc |-> "idle", required |-> 0, seenChainId |-> 0,
             connectFailed |-> FALSE, switchFailed |-> FALSE, result |-> FALSE]

\* a session is mounted over a wallet; the MiniApp host has an account
Mounted(v, a, c) ==
  /\ variant = v
  /\ wallet = [account |-> a, chain |-> c]
  /\ session = MountedSession(v, a, c)
  /\ pendingSigners = IF v = "wagmi" /\ a # "none" THEN {a} ELSE {}
  /\ ensure = NoEnsure

WalletIdle == Mounted("wagmi", "none", CeloChainId)

Init == FacadeIdle /\ DetectorIdle /\ CacheIdle /\ BatchIdle /\ ClaimsIdle /\ WalletIdle

inputVars == <<op, chainId, networkId, isEther, amount, walletBlocksReceipts,
               signerAddress, onChain>>
waitVars == <<waitError, attempts, sleeps, polls, receipt, executorError>>
gasVars == <<estimated, gasLimit>>

\* the promise of the operation rejects with new Error(msg)
Reject(msg) ==
  /\ pc' = "done"
  /\ outcome' = "rejected"
  /\ error' = msg
  /\ result' = "none"

\* the promise of the operation resolves with value
Resolve(value) ==
  /\ pc' = "done"
  /\ outcome' = "resolved"
  /\ result' = value
  /\ error' = ""

Continue(next) ==
  /\ pc' = next
  /\ UNCHANGED <<outcome, result, error>>

(***************************************************************************)
(* A caller invokes an operation of the facade.                            *)
(***************************************************************************)
Invoke ==
  /\ pc = "idle"
  /\ \E o \in Ops, c \in ChainIds, n \in ChainIds, e \in BOOLEAN,
        a \in Amounts, w \in BOOLEAN, f \in FaucetStates :
       /\ o = "createCustomFaucet" => c = n      \* takes no chain arguments
       /\ o # "fundFaucet" => (e = FALSE /\ a = 0)
       /\ op' = o
       /\ chainId' = c
       /\ networkId' = n
       /\ isEther' = e
       /\ amount' = a
       /\ o # "setClaimParameters" => f = NoFaucetState
       /\ walletBlocksReceipts' = w
       /\ signerAddress' = SignerAddress
       /\ onChain' = f
  /\ pc' = "validate"
  /\ UNCHANGED otherVars
  /\ currentAllowance' = 0
  /\ detectedFaucetType' = "none"
  /\ stage' = "none"
  /\ estimated' = EstimateThrows
  /\ gasLimit' = 0
  /\ sentTxs' = <<>>
  /\ waitError' = "none"
  /\ attempts' = 0
  /\ sleeps' = 0
  /\ polls' = 0
  /\ receipt' = "none"
  /\ executorError' = "none"
  /\ divvi' = 0
  /\ offchain' = NoOffchain
  /\ outcome' = "none"
  /\ result' = "none"
  /\ error' = ""

(***************************************************************************)
(* The checks an operation makes before it touches the wallet.             *)
(***************************************************************************)
Validate ==
  /\ pc = "validate"
  /\ \E addressesValid \in BOOLEAN, nameEmpty \in BOOLEAN, nameExists \in BOOLEAN :
       IF NetworkChecked(op) /\ ~checkNetwork(chainId, networkId)
         THEN Reject(NetworkMismatchMessage(op))
       ELSE IF op = "createCustomFaucet" /\ ~addressesValid
         THEN Reject("Invalid factory or token address.")
       ELSE IF op = "createFaucetWithValidation" /\ nameEmpty
         THEN Reject("Faucet name cannot be empty")
       ELSE IF op = "createFaucetWithValidation" /\ nameExists
         THEN Reject("Faucet name exists.")
       ELSE Continue("prepare")
  /\ UNCHANGED <<inputVars, otherVars, waitVars, gasVars, currentAllowance,
                 detectedFaucetType, stage, sentTxs, divvi, offchain>>

(***************************************************************************)
(* Everything between the entry checks and the first gas estimate:         *)
(* getSigner / getAddress, the dialect (hint or detection) and its check,  *)
(* checkPermissions, and for fundFaucet the token and allowance reads.     *)
(* A call that throws is caught by the operation's catch block.            *)
(***************************************************************************)
Prepare ==
  /\ pc = "prepare"
  /\ \E throws \in BOOLEAN, hint \in Dialects \cup {"none"}, detected \in Dialects,
        tokenIsZero \in BOOLEAN, allowance \in Amounts :
       LET tokenPath == op = "fundFaucet" /\ ~(isEther /\ ~isCeloNetwork(chainId))
           t == ResolveDialect(hint, detected)
           perm == IF op = "setClaimParameters"
                     THEN PermissionGate(checkPermissions(onChain, signerAddress))
                     ELSE "ok"
       IN
       /\ ~BranchesOnDialect(op) => hint = "none"
       /\ (~tokenPath \/ (isEther /\ isCeloNetwork(chainId))) => ~tokenIsZero
       /\ ~tokenPath => allowance = 0
       /\ ~BranchesOnDialect(op) => t = "dropcode"
       /\ IF RequiredDialect(op) \notin {"any", t}
            THEN /\ Reject(DialectMismatchMessage(op))
                 /\ UNCHANGED <<currentAllowance, stage>>
                 /\ detectedFaucetType' = t
          ELSE IF throws
            THEN /\ Reject(WrapError(op, "E_UNKNOWN"))
                 /\ UNCHANGED <<currentAllowance, stage, detectedFaucetType>>
          ELSE IF perm # "ok"
            THEN /\ Reject(CASE perm = "paused"       -> "Faucet is paused"
                             [] perm = "unauthorized" -> "Not authorized"
                             [] OTHER                 -> "Failed to check permissions")
                 /\ UNCHANGED <<currentAllowance, stage, detectedFaucetType>>
          ELSE IF tokenIsZero
            THEN /\ Reject("Token address is zero")
                 /\ UNCHANGED <<currentAllowance, stage, detectedFaucetType>>
          ELSE /\ Continue("estimate")
               /\ currentAllowance' = allowance
               /\ detectedFaucetType' = IF BranchesOnDialect(op) THEN t ELSE "none"
               /\ stage' = IF op # "fundFaucet" THEN "tx"
                           ELSE IF ~tokenPath THEN "native"
                           ELSE StageAfterAllowance(allowance, amount)
  /\ UNCHANGED <<inputVars, otherVars, waitVars, gasVars, sentTxs, divvi, offchain>>

(***************************************************************************)
(* estimateGasWithFallback(provider, txParams, fallback)                   *)
(***************************************************************************)
EstimateGas ==
  /\ pc = "estimate"
  /\ \E est \in Estimates \cup {EstimateThrows} :
       /\ estimated' = est
       /\ gasLimit' = estimateGasWithFallback(est, FallbackGas(op, stage))
  /\ Continue("send")
  /\ UNCHANGED <<inputVars, otherVars, waitVars, currentAllowance, detectedFaucetType,
                 stage, sentTxs, divvi, offchain>>

(***************************************************************************)
(* signer.sendTransaction({..., gasLimit}): the user confirms or rejects,   *)
(* or the node refuses the transaction because its simulation reverts      *)
(* (a CALL_EXCEPTION that carries the revert data).                        *)
(***************************************************************************)
SendTransaction ==
  /\ pc = "send"
  /\ \E answer \in {"accepted", "rejected", "refused"}, data \in RevertDatas :
       /\ answer # "refused" => data = NoRevertData
       /\ answer = "refused" => data # NoRevertData
       /\ sentTxs' = Append(sentTxs,
            [kind |-> stage,
             status |-> IF answer = "accepted" THEN "pending" ELSE answer,
             event |-> FALSE, minedAt |-> "none", revertData |-> data])
       /\ CASE answer = "accepted" -> Continue("wait")
            [] answer = "rejected" -> Reject(WrapError(op, "E_REJECTED"))
            [] OTHER               -> Reject(WrapError(op, "E_CUSTOM"))
  /\ UNCHANGED <<inputVars, otherVars, waitVars, gasVars, currentAllowance,
                 detectedFaucetType, stage, divvi, offchain>>

(***************************************************************************)
(* The chain mines the pending transaction: it succeeds or reverts.  A     *)
(* successful factory call may carry the FaucetCreated log.                *)
(***************************************************************************)
Mine ==
  /\ sentTxs # <<>>
  /\ LastTx.status = "pending"
  /\ \E st \in {"success", "reverted"}, ev \in BOOLEAN :
       /\ ev => (st = "success" /\ op \in CreateOps)
       /\ sentTxs' = [sentTxs EXCEPT ![Len(sentTxs)] =
            [@ EXCEPT !.status = st, !.event = ev,
                      !.minedAt = CASE pc = "wait" -> "beforePolling"
                                    [] pc \in {"sleep", "poll"} -> "whilePolling"
                                    [] OTHER -> "afterReturn"]]
  /\ UNCHANGED <<pc, inputVars, otherVars, waitVars, gasVars, currentAllowance,
                 detectedFaucetType, stage, divvi, offchain, outcome, result, error>>

\* a receipt request that goes through provider p fails
ReceiptRequestBlocked(p) == p = "wallet" /\ walletBlocksReceipts

(***************************************************************************)
(* safeWaitForReceipt, step 1:  return await tx.wait()                     *)
(***************************************************************************)
TxWait ==
  /\ pc = "wait"
  /\ \/ /\ ~ReceiptRequestBlocked("wallet")
        /\ LastTx.status = "success"
        /\ receipt' = "success"
        /\ Continue("gotReceipt")
        /\ UNCHANGED <<waitError, attempts, sleeps, polls, executorError>>
     \/ \E e \in {"E_UNSUPPORTED", "E_UNKNOWN", "E_REVERT", "E_NETWORK"} :
          /\ e = "E_REVERT" =>
               (~ReceiptRequestBlocked("wallet") /\ LastTx.status = "reverted")
          /\ e = "E_UNSUPPORTED" => ReceiptRequestBlocked("wallet")
          /\ IF isCompatibilityError(e)
               THEN /\ waitError' = e
                    /\ attempts' = 0
                    /\ Continue("sleep")
                    /\ UNCHANGED <<sleeps, polls, receipt, executorError>>
               ELSE /\ executorError' = e
                    /\ Reject(WrapError(op, e))
                    /\ UNCHANGED <<waitError, attempts, sleeps, polls, receipt>>
  /\ UNCHANGED <<inputVars, otherVars, gasVars, currentAllowance, detectedFaucetType,
                 stage, sentTxs, divvi, offchain>>

(***************************************************************************)
(* safeWaitForReceipt, the loop:  await new Promise(r => setTimeout(r,2000)) *)
(***************************************************************************)
Sleep ==
  /\ pc = "sleep"
  /\ LoopContinues(attempts)
  /\ sleeps' = sleeps + 1
  /\ Continue("poll")
  /\ UNCHANGED <<inputVars, otherVars, gasVars, currentAllowance, detectedFaucetType,
                 stage, sentTxs, divvi, offchain, waitError, attempts, polls, receipt,
                 executorError>>

(***************************************************************************)
(* safeWaitForReceipt, the loop:  provider.getTransactionReceipt(tx.hash)  *)
(***************************************************************************)
Poll ==
  /\ pc = "poll"
  /\ polls' = polls + 1
  /\ \/ \* the request throws: caught and ignored
        /\ attempts' = attempts + 1
        /\ Continue("sleep")
        /\ UNCHANGED receipt
     \/ \* null: not mined yet
        /\ ~ReceiptRequestBlocked(PollProvider)
        /\ LastTx.status = "pending"
        /\ attempts' = attempts + 1
        /\ Continue("sleep")
        /\ UNCHANGED receipt
     \/ \* a receipt
        /\ ~ReceiptRequestBlocked(PollProvider)
        /\ LastTx.status # "pending"
        /\ IF PollAccepts(LastTx.status)
             THEN /\ receipt' = LastTx.status
                  /\ Continue("gotReceipt")
                  /\ UNCHANGED attempts
             ELSE /\ attempts' = attempts + 1
                  /\ Continue("sleep")
                  /\ UNCHANGED receipt
  /\ UNCHANGED <<inputVars, otherVars, gasVars, currentAllowance, detectedFaucetType,
                 stage, sentTxs, divvi, offchain, waitError, sleeps, executorError>>

(***************************************************************************)
(* safeWaitForReceipt, after the loop:  throw error                        *)
(***************************************************************************)
PollExhausted ==
  /\ pc = "sleep"
  /\ ~LoopContinues(attempts)
  /\ executorError' = ErrorAfterPolling(waitError)
  /\ Reject(WrapError(op, ErrorAfterPolling(waitError)))
  /\ UNCHANGED <<inputVars, otherVars, gasVars, currentAllowance, detectedFaucetType,
                 stage, sentTxs, divvi, offchain, waitError, attempts, sleeps, polls,
                 receipt>>

\* reportTransactionToDivvi(txHash, chainId): the analytics report; a failed
\* report is logged and swallowed, the call returns either way
reportTransactionToDivvi(reports, delivered) == reports + 1

\* what the backend answers to POST /delete-faucet-metadata
MetadataResponses == {"ok", "notOk", "unreachable"}

\* variant of deleteFaucetMetadata without the try / catch around fetch
deleteFaucetMetadataUnguarded(response) ==
  IF response = "unreachable" THEN "thrown" ELSE "returned"

\* deleteFaucetMetadata: fetch may throw and the answer may be !response.ok;
\* both are logged, the function returns in every case
deleteFaucetMetadata(response) ==
  IF response = "unreachable"
    THEN "returned"                     \* catch (error) { console.error }
    ELSE IF response # "ok"
      THEN "returned"                   \* console.warn
      ELSE "returned"

\* variant that falls back to the address the transaction was sent to
FaucetCreatedAddressOrTarget(tx) ==
  IF tx.event THEN "faucetAddress" ELSE "factoryAddress"

\* the faucet argument of the first log of the receipt that parses as
\* FaucetCreated with the factory ABI ("none": no such log)
FaucetCreatedAddress(tx) ==
  IF tx.event THEN "faucetAddress" ELSE "none"

\* what is recorded of one reportTransactionToDivvi call
ReportOutcome(delivered) == IF delivered THEN "delivered" ELSE "failed"

(***************************************************************************)
(* safeWaitForReceipt returned a receipt: the operation goes on to its     *)
(* next transaction (fundFaucet) or runs its off-chain steps and returns.  *)
(***************************************************************************)
AfterReceipt ==
  /\ pc = "gotReceipt"
  /\ \E delivered \in BOOLEAN, supported \in BOOLEAN,
        response \in MetadataResponses :
       /\ op # "storeClaim" => supported
       /\ op # "deleteFaucet" => response = "ok"
       /\ IF op = "fundFaucet" /\ NextStage(stage) # "none"
            THEN /\ stage' = NextStage(stage)
                 /\ divvi' = IF stage = "approve"
                               THEN reportTransactionToDivvi(divvi, delivered)
                               ELSE divvi
                 /\ offchain' = IF stage = "approve"
                                  THEN [NoOffchain EXCEPT !.report = ReportOutcome(delivered)]
                                  ELSE NoOffchain
                 /\ waitError' = "none"
                 /\ attempts' = 0
                 /\ sleeps' = 0
                 /\ polls' = 0
                 /\ receipt' = "none"
                 /\ Continue("estimate")
                 /\ UNCHANGED faucetDetailsCache
          ELSE IF op = "deleteFaucet" /\ deleteFaucetMetadata(response) = "thrown"
            THEN /\ UNCHANGED <<stage, waitError, attempts, sleeps, polls,
                                receipt, divvi, faucetDetailsCache>>
                 /\ offchain' = [NoOffchain EXCEPT !.metadata = response]
                 /\ Reject(WrapError(op, "E_FETCH"))
          ELSE /\ UNCHANGED <<stage, waitError, attempts, sleeps, polls, receipt>>
               /\ divvi' = IF op = "createCustomFaucet" \/ ~supported
                             THEN divvi
                             ELSE reportTransactionToDivvi(divvi, delivered)
               /\ offchain' =
                    [metadata |-> IF op = "deleteFaucet" THEN response ELSE "none",
                     report |-> IF op = "createCustomFaucet" \/ ~supported
                                  THEN "none" ELSE ReportOutcome(delivered),
                     cacheDeleted |-> op = "deleteFaucet"]
               /\ faucetDetailsCache' =
                    IF op = "deleteFaucet"
                      THEN MapDelete(faucetDetailsCache, DeletedKey(chainId, FaucetAddress))
                      ELSE faucetDetailsCache
               /\ IF op \in CreateOps
                    THEN IF FaucetCreatedAddress(LastTx) # "none"
                           THEN Resolve(FaucetCreatedAddress(LastTx))
                           ELSE Reject(IF op = "createCustomFaucet"
                                  THEN "Deployment succeeded, but the FaucetCreated event was not found."
                                  ELSE "Failed to retrieve address")
                    ELSE Resolve("txHash")
  /\ UNCHANGED <<inputVars, detectorVars, cacheVars, batchVars, detailsServed,
                 walletVars, gasVars, currentAllowance, detectedFaucetType, sentTxs, executorError>>

Next ==
  \/ Invoke
  \/ Validate
  \/ Prepare
  \/ EstimateGas
  \/ SendTransaction
  \/ Mine
  \/ TxWait
  \/ Sleep
  \/ Poll
  \/ PollExhausted
  \/ AfterReceipt

Spec == Init /\ [][Next]_vars

TypeOK ==
  /\ pc \in {"idle", "validate", "prepare", "estimate", "send", "wait",
             "sleep", "poll", "gotReceipt", "done"}
  /\ op \in Ops \cup {"none"}
  /\ chainId \in ChainIds /\ networkId \in ChainIds
  /\ attempts \in 0..MaxPollAttempts
  /\ Len(sentTxs) <= 3
  /\ outcome \in {"none", "resolved", "rejected"}

\* the event loop runs every timer and every settled promise of the polling loop
FairSpec ==
  Spec /\ WF_vars(Sleep) /\ WF_vars(Poll) /\ WF_vars(PollExhausted)

(***************************************************************************)
(* The dialect detectors.  detectFaucetType and detectFactoryType try the  *)
(* three ABIs in a fixed order and read the contract with staticCall only. *)
(* The probed contract and the RPC are the environment: which functions    *)
(* the contract answers and which probes meet an RPC error are drawn in    *)
(* the initial state and stay the same from run to run.                    *)
(***************************************************************************)
MaxDetections == 2

\* const faucetTypes / factoryTypes = ['dropcode', 'droplist', 'custom']
DetectionOrder == <<"dropcode", "droplist", "custom">>

\* the view functions detectFaucetType calls
Accessors == {"name", "claimAmount", "isWhitelisted", "getCustomClaimAmount"}

\* the probes detectFaucetType can issue: <<ABI in use, function>>
Probes ==
  {<<"dropcode", f>> : f \in Accessors}
    \cup {<<"droplist", "name">>, <<"droplist", "isWhitelisted">>,
          <<"custom", "name">>, <<"custom", "getCustomClaimAmount">>}

\* the functions the ABI of a dialect declares: name and claimAmount are
\* shared, isWhitelisted is the droplist accessor, getCustomClaimAmount the
\* custom one; foreign tells whether the dropcode ABI lists those two as well
AbiDeclares(type, fn, foreign) ==
  CASE fn = "name"                 -> TRUE
    [] fn = "claimAmount"          -> type \in {"dropcode", "droplist"}
    [] fn = "isWhitelisted"        -> type = "droplist" \/ (type = "dropcode" /\ foreign)
    [] fn = "getCustomClaimAmount" -> type = "custom" \/ (type = "dropcode" /\ foreign)
    [] OTHER                       -> FALSE

\* variant of the probe that sends a transaction for everything but name()
ProbeMethodSend(fn) ==
  IF fn = "name" THEN "eth_call" ELSE "eth_sendTransaction"

\* contract.<fn>.staticCall(...): the JSON-RPC method the probe issues
ProbeMethod(fn) == "eth_call"

\* await contract.<fn>.staticCall(...) returns (it throws otherwise: the
\* function is not in the ABI, the contract does not answer it, or the RPC
\* request fails)
ProbeReturns(type, fn, acc, fails, foreign) ==
  /\ AbiDeclares(type, fn, foreign)
  /\ fn \in acc
  /\ <<type, fn>> \notin fails

\* variant of one loop iteration that trusts the first ABI whose name() works
TryTypeNameOnly(type, acc, fails, foreign) ==
  IF ~ProbeReturns(type, "name", acc, fails, foreign) THEN "continue" ELSE type

\* variant of one loop iteration without the outer try / catch
TryTypeUncaught(type, acc, fails, foreign) ==
  IF ~ProbeReturns(type, "name", acc, fails, foreign)
    THEN "thrown"
  ELSE IF type = "droplist"
    THEN IF ProbeReturns(type, "isWhitelisted", acc, fails, foreign)
           THEN "droplist" ELSE "continue"
  ELSE IF type = "custom"
    THEN IF ProbeReturns(type, "getCustomClaimAmount", acc, fails, foreign)
           THEN "custom" ELSE "continue"
  ELSE IF ~ProbeReturns(type, "claimAmount", acc, fails, foreign)
    THEN "continue"
  ELSE IF ProbeReturns(type, "isWhitelisted", acc, fails, foreign)
    THEN "continue"
  ELSE IF ProbeReturns(type, "getCustomClaimAmount", acc, fails, foreign)
    THEN "continue"
  ELSE "dropcode"

\* one iteration of the loop of detectFaucetType: the dialect it returns, or
\* "continue"
TryType(type, acc, fails, foreign) ==
  IF ~ProbeReturns(type, "name", acc, fails, foreign)
    THEN "continue"                                    \* outer catch
  ELSE IF type = "droplist"
    THEN IF ProbeReturns(type, "isWhitelisted", acc, fails, foreign)
           THEN "droplist" ELSE "continue"
  ELSE IF type = "custom"
    THEN IF ProbeReturns(type, "getCustomClaimAmount", acc, fails, foreign)
           THEN "custom" ELSE "continue"
  ELSE IF ~ProbeReturns(type, "claimAmount", acc, fails, foreign)
    THEN "continue"
  ELSE IF ProbeReturns(type, "isWhitelisted", acc, fails, foreign)
    THEN "continue"                                    \* has whitelist
  ELSE IF ProbeReturns(type, "getCustomClaimAmount", acc, fails, foreign)
    THEN "continue"                                    \* has custom amounts
  ELSE "dropcode"

RECURSIVE FaucetLoop(_, _, _, _)
\* the for loop of detectFaucetType from position i on, and its default
FaucetLoop(i, acc, fails, foreign) ==
  IF i > Len(DetectionOrder)
    THEN "dropcode"
    ELSE LET r == TryType(DetectionOrder[i], acc, fails, foreign)
         IN IF r = "continue" THEN FaucetLoop(i + 1, acc, fails, foreign) ELSE r

detectFaucetType(acc, fails, foreign) == FaucetLoop(1, acc, fails, foreign)

\* what await contract[config.createFunction].staticCall(...) can meet: it
\* returns, throws an error whose message has 'function' and 'not found',
\* or throws any other error
FactoryAnswers == {"ok", "notFound", "otherError"}

\* variant that accepts a dialect only when the static call returns
FactoryProbeAcceptsOnSuccess(answer) == answer = "ok"

\* the probe of one dialect ends the loop: the call returned, or the catch
\* block met an error whose message lacks 'function' or 'not found'
FactoryProbeAccepts(answer) == answer # "notFound"

RECURSIVE FactoryLoop(_, _)
\* the for loop of detectFactoryType from position i on, and its default
FactoryLoop(i, answers) ==
  IF i > Len(DetectionOrder)
    THEN "dropcode"
    ELSE IF ~FactoryProbeAccepts(answers[DetectionOrder[i]])
      THEN FactoryLoop(i + 1, answers)
      ELSE DetectionOrder[i]

detectFactoryType(answers) == FactoryLoop(1, answers)

\* the detector is handed a faucet or a factory to probe
DetectorInit ==
  /\ FacadeIdle
  /\ CacheIdle
  /\ BatchIdle
  /\ ClaimsIdle
  /\ WalletIdle
  /\ detections = <<>>
  /\ rpcLog = {}
  /\ \/ /\ target = "faucet"
        /\ accessors \in SUBSET Accessors
        /\ rpcFails \in SUBSET Probes
        /\ abiForeign \in BOOLEAN
        /\ factoryAnswers = [t \in Dialects |-> "ok"]
     \/ /\ target = "factory"
        /\ accessors = {}
        /\ rpcFails = {}
        /\ abiForeign = FALSE
        /\ factoryAnswers \in [Dialects -> FactoryAnswers]

\* one call of detectFaucetType(provider, faucetAddress)
DetectFaucetType ==
  /\ target = "faucet"
  /\ Len(detections) < MaxDetections
  /\ detections' = Append(detections, detectFaucetType(accessors, rpcFails, abiForeign))
  /\ rpcLog' = rpcLog \cup {ProbeMethod(f) : f \in Accessors}
  /\ UNCHANGED <<target, accessors, rpcFails, abiForeign, factoryAnswers>>
  /\ UNCHANGED <<facadeVars, cacheVars, batchVars, claimsVars, walletVars>>

\* one call of detectFactoryType(provider, factoryAddress)
DetectFactoryType ==
  /\ target = "factory"
  /\ Len(detections) < MaxDetections
  /\ detections' = Append(detections, detectFactoryType(factoryAnswers))
  /\ rpcLog' = rpcLog \cup {ProbeMethod("createFunction")}
  /\ UNCHANGED <<target, accessors, rpcFails, abiForeign, factoryAnswers>>
  /\ UNCHANGED <<facadeVars, cacheVars, batchVars, claimsVars, walletVars>>

DetectorNext ==
  \/ DetectFaucetType
  \/ DetectFactoryType

DetectorSpec == DetectorInit /\ [][DetectorNext]_vars

(***************************************************************************)
(* The browser-persisted caches: fetchStorageData (claim history),         *)
(* fetchCheckInData (check-in history) and retrieveSecretCode.  The chain, *)
(* the backend and the clock are the environment.  An entry of storage     *)
(* remembers when it was written (localStorage itself does not).           *)
(***************************************************************************)
\* getFromStorage(key): the parsed item, or null
getFromStorage(st, key) == st[key]

\* saveToStorage(key, data): setItem / JSON.stringify may throw (quota, a
\* value that does not serialise); the error is logged and nothing is written
saveToStorage(st, key, data, written) ==
  IF written THEN [st EXCEPT ![key] = data] ELSE st

\* isCacheValid(): the one timestamp of STORAGE_KEYS.CACHE_TIMESTAMP is fresh
isCacheValid(st, t) ==
  LET timestamp == getFromStorage(st, "CACHE_TIMESTAMP")
  IN IF timestamp = 0 THEN FALSE ELSE t - timestamp < CACHE_DURATION

\* updateCacheTimestamp()
updateCacheTimestamp(st, t, written) ==
  saveToStorage(st, "CACHE_TIMESTAMP", t, written)

\* an entry written at time t
EntryAt(t) == [present |-> TRUE, writtenAt |-> t, wellFormed |-> TRUE]

\* variant of the test of retrieveSecretCode that also wants the code fresh
SecretCodeUsableWhileFresh(entry, t) ==
  entry.present /\ entry.wellFormed /\ t - entry.writtenAt < CACHE_DURATION

\* if (cachedCode && /^[A-Z0-9]{6}$/.test(cachedCode))
SecretCodeUsable(entry, t) == entry.present /\ entry.wellFormed

\* what a reader returned: from the cache, from the chain or the backend,
\* from the cache after a failed request ("fallback"), nothing ("empty"),
\* or it threw ("error"); age is the age of the cached entry it returned,
\* at the time of the call
Served(fn, from, age) == [fn |-> fn, from |-> from, age |-> age, at |-> now]

\* time passes
Tick ==
  /\ now < TickMs * (MaxTicks + 1)
  /\ now' = now + TickMs
  /\ UNCHANGED <<storage, currentBlock, served, calls>>
  /\ UNCHANGED <<facadeVars, detectorVars, batchVars, claimsVars, walletVars>>

\* the check-in chain produces a block
NewBlock ==
  /\ currentBlock < MaxBlock
  /\ currentBlock' = currentBlock + 1
  /\ UNCHANGED <<now, storage, served, calls>>
  /\ UNCHANGED <<facadeVars, detectorVars, batchVars, claimsVars, walletVars>>

\* fetchStorageData()
FetchStorageData ==
  /\ \E code \in {"deployed", "0x", "throws"}, readThrows \in BOOLEAN,
        dataWritten \in BOOLEAN, stampWritten \in BOOLEAN :
       LET cachedData == getFromStorage(storage, "STORAGE_DATA")
           fallback == IF cachedData.present
                         THEN Served("fetchStorageData", "fallback", now - cachedData.writtenAt)
                         ELSE Served("fetchStorageData", "empty", 0)
       IN
       /\ (code # "deployed" \/ (cachedData.present /\ isCacheValid(storage, now)))
            => (~readThrows /\ dataWritten /\ stampWritten)
       /\ readThrows => (dataWritten /\ stampWritten)
       /\ IF code = "throws"
            THEN served' = fallback /\ UNCHANGED storage
          ELSE IF code = "0x"
            THEN served' = Served("fetchStorageData", "empty", 0) /\ UNCHANGED storage
          ELSE IF cachedData.present /\ isCacheValid(storage, now)
            THEN /\ served' = Served("fetchStorageData", "cache", now - cachedData.writtenAt)
                 /\ UNCHANGED storage
          ELSE IF readThrows
            THEN served' = fallback /\ UNCHANGED storage
          ELSE /\ storage' = updateCacheTimestamp(
                    saveToStorage(storage, "STORAGE_DATA", EntryAt(now), dataWritten),
                    now, stampWritten)
               /\ served' = Served("fetchStorageData", "chain", 0)
  /\ UNCHANGED <<now, currentBlock, calls>>
  /\ UNCHANGED <<facadeVars, detectorVars, batchVars, claimsVars, walletVars>>

\* Math.max
MathMax(a, b) == IF a >= b THEN a ELSE b

\* const fromBlock = Math.max(lastBlock + 1, currentBlock - 10000)
QueryWindow == 10000
FromBlock(lastBlock, block) == MathMax(lastBlock + 1, block - QueryWindow)

\* the loop over the events of queryFilter(filter, fromBlock, currentBlock):
\* transactionsByDate[date] = (transactionsByDate[date] || 0) + 1
ProcessEvents(transactionsByDate, fromBlock, toBlock) ==
  [b \in Blocks |-> IF fromBlock <= b /\ b <= toBlock
                      THEN transactionsByDate[b] + 1
                      ELSE transactionsByDate[b]]

\* the CHECKIN_DATA entry written at time t
CheckInEntryAt(t, transactionsByDate) ==
  [present |-> TRUE, writtenAt |-> t, wellFormed |-> TRUE,
   transactionsByDate |-> transactionsByDate]

\* if (cachedData && isCacheValid())
CheckInDataLoaded(cachedData, st, t) == cachedData.present /\ isCacheValid(st, t)

\* fetchCheckInData(), up to its first await: the reads of localStorage
FetchCheckInData ==
  /\ BagCardinality(calls) < MaxCalls
  /\ LET cachedData == getFromStorage(storage, "CHECKIN_DATA")
         lastBlock == getFromStorage(storage, "CHECKIN_LAST_BLOCK")
         loaded == CheckInDataLoaded(cachedData, storage, now)
     IN calls' = calls (+) SetToBag({
                   [phase |-> "getBlockNumber",
                    transactionsByDate |-> IF loaded THEN cachedData.transactionsByDate
                                           ELSE NoCounts,
                    loaded |-> loaded,
                    cachedAt |-> IF loaded THEN cachedData.writtenAt ELSE 0,
                    lastBlock |-> lastBlock,
                    currentBlock |-> 0]})
  /\ UNCHANGED <<now, storage, currentBlock, served>>
  /\ UNCHANGED <<facadeVars, detectorVars, batchVars, claimsVars, walletVars>>

\* fetchCheckInData(): const currentBlock = await provider.getBlockNumber()
GetBlockNumber ==
  /\ \E call \in BagToSet(calls), blockThrows \in BOOLEAN :
       LET cachedData == getFromStorage(storage, "CHECKIN_DATA")
           returned == calls (-) SetToBag({call})
       IN
       /\ call.phase = "getBlockNumber"
       /\ IF blockThrows
            THEN \* the outer catch block reads the storage again
                 /\ served' = IF cachedData.present
                                THEN Served("fetchCheckInData", "fallback", now - cachedData.writtenAt)
                                ELSE Served("fetchCheckInData", "empty", 0)
                 /\ calls' = returned
          ELSE IF currentBlock > call.lastBlock
            THEN /\ calls' = returned (+) SetToBag({
                        [call EXCEPT !.phase = "queryFilter",
                                     !.currentBlock = currentBlock]})
                 /\ UNCHANGED served
          ELSE /\ served' = IF call.loaded
                              THEN Served("fetchCheckInData", "cache", now - call.cachedAt)
                              ELSE Served("fetchCheckInData", "empty", 0)
               /\ calls' = returned
  /\ UNCHANGED <<now, storage, currentBlock>>
  /\ UNCHANGED <<facadeVars, detectorVars, batchVars, claimsVars, walletVars>>

\* fetchCheckInData(): the query of the new events, their count and the save
QueryFilter ==
  /\ \E call \in BagToSet(calls), queryThrows \in BOOLEAN, written \in BOOLEAN :
       LET fromBlock == FromBlock(call.lastBlock, call.currentBlock)
           transactionsByDate ==
             ProcessEvents(call.transactionsByDate, fromBlock, call.currentBlock)
       IN
       /\ call.phase = "queryFilter"
       /\ queryThrows => written
       /\ IF queryThrows
            THEN /\ served' = IF call.loaded
                                THEN Served("fetchCheckInData", "cache", now - call.cachedAt)
                                ELSE Served("fetchCheckInData", "empty", 0)
                 /\ UNCHANGED storage
            ELSE /\ storage' = updateCacheTimestamp(
                      saveToStorage(
                        saveToStorage(storage, "CHECKIN_DATA",
                                      CheckInEntryAt(now, transactionsByDate), written),
                        "CHECKIN_LAST_BLOCK", call.currentBlock, written),
                      now, written)
                 /\ served' = Served("fetchCheckInData", "chain", 0)
       /\ calls' = calls (-) SetToBag({call})
  /\ UNCHANGED <<now, currentBlock>>
  /\ UNCHANGED <<facadeVars, detectorVars, batchVars, claimsVars, walletVars>>

\* retrieveSecretCode(faucetAddress), for a valid address
RetrieveSecretCode ==
  /\ \E answer \in {"code", "notOk", "malformed", "unreachable"}, written \in BOOLEAN :
       LET cachedCode == getFromStorage(storage, "secretCode")
       IN
       /\ (SecretCodeUsable(cachedCode, now) \/ answer # "code") => written
       /\ SecretCodeUsable(cachedCode, now) => answer = "code"
       /\ IF SecretCodeUsable(cachedCode, now)
            THEN /\ served' = Served("retrieveSecretCode", "cache", now - cachedCode.writtenAt)
                 /\ UNCHANGED storage
          ELSE IF answer # "code"
            THEN /\ served' = Served("retrieveSecretCode", "error", 0)
                 /\ UNCHANGED storage
          ELSE /\ storage' = saveToStorage(storage, "secretCode", EntryAt(now), written)
               /\ served' = Served("retrieveSecretCode", "backend", 0)
  /\ UNCHANGED <<now, currentBlock, calls>>
  /\ UNCHANGED <<facadeVars, detectorVars, batchVars, claimsVars, walletVars>>

\* a page that awaits every reader before it calls the next one
FetchCheckInDataAlone == calls = EmptyBag /\ FetchCheckInData

CacheNext ==
  \/ Tick
  \/ NewBlock
  \/ FetchStorageData
  \/ FetchCheckInDataAlone
  \/ GetBlockNumber
  \/ QueryFilter
  \/ RetrieveSecretCode

CacheSpec == Init /\ [][CacheNext]_vars

\* the check-in reader on its own, called again while earlier calls are at
\* an await (up to MaxCalls of them)
CheckInNext ==
  \/ Tick
  \/ NewBlock
  \/ FetchCheckInData
  \/ GetBlockNumber
  \/ QueryFilter

CheckInSpec == Init /\ [][CheckInNext]_vars

(***************************************************************************)
(* The fan-out of detail requests.  checkFaucetNameExistsAcrossAllFactories *)
(* (getAllFaucets fallback) walks the faucets of a factory in slices that  *)
(* it awaits with Promise.allSettled; getFaucetsForNetwork and getAllClaims *)
(* map every faucet (claim) to a promise and await Promise.all.            *)
(***************************************************************************)
MaxItems == 12

\* const batchSize = 10
BatchSize == 10

Fetchers ==
  {"checkFaucetNameExistsAcrossAllFactories", "getFaucetsForNetwork", "getAllClaims"}

\* the readers whose loop slices the list
Batched(f) == f = "checkFaucetNameExistsAcrossAllFactories"

Min(a, b) == IF a <= b THEN a ELSE b

\* variant of the slice that takes the rest of the list
BatchEndWhole(i, n) == n

\* faucetAddresses.slice(i, i + batchSize): index after the last element
BatchEnd(i, n) == Min(i + BatchSize, n)

\* a reader is called and learns how many faucets (claims) there are
CallFetcher ==
  /\ fetcher = "none"
  /\ \E f \in Fetchers, n \in 0..MaxItems :
       /\ fetcher' = f
       /\ items' = n
  /\ started' = 0
  /\ settled' = 0
  /\ delayed' = TRUE
  /\ UNCHANGED <<facadeVars, detectorVars, cacheVars, claimsVars, walletVars>>

\* batch.map(async ...) / faucetAddresses.map(async ...): the requests of
\* one slice, or of the whole list, are issued in one go
StartRequests ==
  /\ fetcher # "none"
  /\ started < items
  /\ IF Batched(fetcher)
       THEN /\ started = settled
            /\ delayed
            /\ started' = BatchEnd(started, items)
       ELSE /\ started = 0
            /\ started' = items
  /\ delayed' = FALSE
  /\ UNCHANGED <<fetcher, items, settled>>
  /\ UNCHANGED <<facadeVars, detectorVars, cacheVars, claimsVars, walletVars>>

\* one request in flight is answered or fails
Settle ==
  /\ settled < started
  /\ settled' = settled + 1
  /\ UNCHANGED <<fetcher, items, started, delayed>>
  /\ UNCHANGED <<facadeVars, detectorVars, cacheVars, claimsVars, walletVars>>

\* await new Promise(resolve => setTimeout(resolve, 100)) between slices
BatchDelay ==
  /\ Batched(fetcher)
  /\ started = settled
  /\ 0 < started /\ started < items
  /\ ~delayed
  /\ delayed' = TRUE
  /\ UNCHANGED <<fetcher, items, started, settled>>
  /\ UNCHANGED <<facadeVars, detectorVars, cacheVars, claimsVars, walletVars>>

BatchNext ==
  \/ CallFetcher
  \/ StartRequests
  \/ Settle
  \/ BatchDelay

BatchSpec == Init /\ [][BatchNext]_vars

(***************************************************************************)
(* The claim readers and the Map of faucet details they share.  Both map   *)
(* every claim to the details of its faucet: from faucetDetailsCache when  *)
(* the key of the claim's network and faucet is there, else from           *)
(* getFaucetDetails, whose answer they put into the Map.                   *)
(***************************************************************************)
\* the lookup for one claim of network c and faucet f
LookupFaucetDetails(c, f, detailsThrow) ==
  LET cacheKey == CacheKey(c, f)
  IN IF cacheKey \in faucetDetailsCache
       THEN /\ detailsServed' = [key |-> cacheKey, from |-> "cache"]
            /\ UNCHANGED faucetDetailsCache
     ELSE IF detailsThrow
       THEN /\ detailsServed' = [key |-> cacheKey, from |-> "default"]
            /\ UNCHANGED faucetDetailsCache
     ELSE /\ detailsServed' = [key |-> cacheKey, from |-> "chain"]
          /\ faucetDetailsCache' = faucetDetailsCache \cup {cacheKey}

\* getAllClaims(chainId, networks), for one claim of the list
GetAllClaims ==
  /\ \E c \in ChainIds, detailsThrow \in BOOLEAN :
       LookupFaucetDetails(c, FaucetAddress, detailsThrow)
  /\ UNCHANGED <<facadeVars, detectorVars, cacheVars, batchVars, walletVars>>

\* getAllClaimsFromFactoryTransactions(networks), for one claim transaction
GetAllClaimsFromFactoryTransactions ==
  /\ \E c \in ChainIds, detailsThrow \in BOOLEAN :
       LookupFaucetDetails(c, FaucetAddress, detailsThrow)
  /\ UNCHANGED <<facadeVars, detectorVars, cacheVars, batchVars, walletVars>>

\* deleteFaucet(provider, faucetAddress, chainId, networkId, faucetType)
DeleteFaucet == Next /\ op' = "deleteFaucet"

ClaimsNext ==
  \/ GetAllClaims
  \/ GetAllClaimsFromFactoryTransactions
  \/ DeleteFaucet

ClaimsSpec == Init /\ [][ClaimsNext]_vars

(***************************************************************************)
(* The wallet session.  Four sources define one: the wagmi-backed          *)
(* WalletProvider, the MiniApp SDK WalletProvider, the Farcaster           *)
(* WalletProvider of part_002 and the ensureCorrectNetwork of lib/utils    *)
(* over window.ethereum, which keeps no state.                             *)
(***************************************************************************)
nonWalletVars == <<facadeVars, detectorVars, cacheVars, batchVars, claimsVars>>

\* the isConnected the provider component exposes
isConnected ==
  CASE variant = "wagmi" ->
         /\ wallet.account # "none"
         /\ session.address # "none"
         /\ session.provider
         /\ session.signer # "none"
    [] variant = "miniapp" ->
         /\ session.isReady
         /\ session.address # "none"
         /\ session.provider
         /\ session.signer # "none"
    [] variant = "farcaster" ->
         session.address # "none" /\ session.signer # "none"
    [] OTHER -> FALSE

\* setProvider(null); setSigner(null); setIsReady(false)
Cleared(ses) == [ses EXCEPT !.provider = FALSE, !.signer = "none", !.isReady = FALSE]

\* the wallet reports another account (or none): the wagmi hooks and the
\* effect updateProviderAndSigner, or the accountsChanged listener
AccountsChanged ==
  /\ \E a \in Accounts \cup {"none"} :
       /\ a # wallet.account
       /\ wallet' = [wallet EXCEPT !.account = a]
       /\ CASE variant = "wagmi" ->
                 IF a = "none"
                   THEN /\ session' = Cleared([session EXCEPT !.address = "none"])
                        /\ UNCHANGED pendingSigners
                   ELSE /\ session' = [session EXCEPT !.address = a]
                        /\ pendingSigners' = pendingSigners \cup {a}
            [] variant = "miniapp" ->
                 /\ session' = IF a = "none"
                                 THEN [session EXCEPT !.address = "none", !.isReady = FALSE]
                                 ELSE [session EXCEPT !.address = a]
                 /\ UNCHANGED pendingSigners
            [] variant = "farcaster" ->
                 IF a = "none"
                   THEN /\ session' = [session EXCEPT !.address = "none", !.signer = "none"]
                        /\ UNCHANGED pendingSigners
                   ELSE /\ session' = [session EXCEPT !.address = a]
                        /\ pendingSigners' = pendingSigners \cup {a}
            [] OTHER -> UNCHANGED <<session, pendingSigners>>
  /\ UNCHANGED <<variant, ensure, nonWalletVars>>

\* an awaited provider.getSigner() settles: in updateProviderAndSigner
\* (wagmi) or in handleAccountsChanged (part_002)
GetSignerSettles ==
  /\ \E a \in pendingSigners, throws \in BOOLEAN :
       /\ pendingSigners' = pendingSigners \ {a}
       /\ IF variant = "wagmi"
            THEN session' = IF throws THEN Cleared(session)
                            ELSE [session EXCEPT !.provider = TRUE, !.signer = a,
                                                 !.isReady = TRUE]
            ELSE session' = IF throws THEN session
                            ELSE [session EXCEPT !.signer = a]
  /\ UNCHANGED <<variant, wallet, ensure, nonWalletVars>>

\* disconnect(): wagmiDisconnect() and the three setters (wagmi), or the
\* reset of signer and address (part_002)
Disconnect ==
  /\ variant \in {"wagmi", "farcaster"}
  /\ IF variant = "wagmi"
       THEN /\ wallet' = [wallet EXCEPT !.account = "none"]
            /\ session' = Cleared([session EXCEPT !.address = "none"])
       ELSE /\ session' = [session EXCEPT !.signer = "none", !.address = "none"]
            /\ UNCHANGED wallet
  /\ UNCHANGED <<variant, pendingSigners, ensure, nonWalletVars>>

\* ensureCorrectNetwork(requiredChainId), up to its first await; chainId and
\* isConnected / isReady are the values of the render that made the closure
EnsureCorrectNetwork ==
  /\ ensure.pc \in {"idle", "returned"}
  /\ \E requiredChainId \in ChainIds :
       ensure' = [pc |-> IF \/ variant = "wagmi" /\ ~isConnected
                            \/ variant = "miniapp" /\ ~session.isReady
                           THEN "connect" ELSE "switch",
                  required |-> requiredChainId,
                  seenChainId |-> session.chainId,
                  connectFailed |-> FALSE,
                  switchFailed |-> FALSE,
                  result |-> FALSE]
  /\ UNCHANGED <<variant, wallet, session, pendingSigners, nonWalletVars>>

\* await connect(): its own catch block keeps every error to itself
EnsureConnect ==
  /\ ensure.pc = "connect"
  /\ \E a \in Accounts \cup {"none"} :
       /\ ensure' = [ensure EXCEPT !.pc = "switch", !.connectFailed = (a = "none")]
       /\ IF a = "none"
            THEN UNCHANGED <<wallet, session, pendingSigners>>
            ELSE /\ wallet' = [wallet EXCEPT !.account = a]
                 /\ session' = [session EXCEPT !.address = a]
                 /\ pendingSigners' = IF variant = "wagmi"
                                        THEN pendingSigners \cup {a}
                                        ELSE pendingSigners
  /\ UNCHANGED <<variant, nonWalletVars>>

\* what switchChain(requiredChainId) makes of the wallet's answer: "ok" it
\* returns, "thrown" it throws
switchChain(v, answer, addAnswer) ==
  IF answer = "switched" THEN "ok"
  ELSE IF v = "miniapp" /\ answer = "4902"
    THEN IF addAnswer = "rejected" THEN "thrown" ELSE "ok"
  ELSE "thrown"

\* the chain comparison, the switch and the return of ensureCorrectNetwork
EnsureReturn ==
  /\ ensure.pc = "switch"
  /\ \E answer \in {"switched", "4902", "rejected"},
        addAnswer \in {"added", "addedAndSwitched", "rejected"} :
       LET current == IF variant = "injected" THEN wallet.chain ELSE ensure.seenChainId
           asked == current # ensure.required
           chain == IF ~asked THEN wallet.chain
                    ELSE IF answer = "switched" THEN ensure.required
                    ELSE IF variant = "miniapp" /\ answer = "4902"
                            /\ addAnswer = "addedAndSwitched" THEN CeloChainId
                    ELSE wallet.chain
       IN
       /\ ~asked => (answer = "switched" /\ addAnswer = "added")
       /\ ~(variant = "miniapp" /\ answer = "4902") => addAnswer = "added"
       /\ wallet' = [wallet EXCEPT !.chain = chain]
       /\ session' = IF variant = "injected" THEN session
                     ELSE [session EXCEPT !.chainId = chain]
       /\ ensure' = [ensure EXCEPT
                       !.pc = "returned",
                       !.switchFailed = asked /\ answer # "switched",
                       !.result = ~asked \/ switchChain(variant, answer, addAnswer) = "ok"]
  /\ UNCHANGED <<variant, pendingSigners, nonWalletVars>>

WalletInit ==
  /\ FacadeIdle /\ DetectorIdle /\ CacheIdle /\ BatchIdle /\ ClaimsIdle
  /\ \E v \in Variants, a \in {"none", "alice"}, c \in ChainIds :
       /\ v = "miniapp" => a = "alice"
       /\ Mounted(v, a, c)

WalletNext ==
  \/ AccountsChanged
  \/ GetSignerSettles
  \/ Disconnect
  \/ EnsureCorrectNetwork
  \/ EnsureConnect
  \/ EnsureReturn

WalletSpec == WalletInit /\ [][WalletNext]_vars

(***************************************************************************)
(* Vocabulary of the properties.                                           *)
(***************************************************************************)
\* signer.sendTransaction has been called for the current transaction
Submitted ==
  /\ sentTxs # <<>>
  /\ pc \in {"wait", "sleep", "poll", "gotReceipt", "done"}

\* provider.estimateGas threw for the current transaction
EstimateFailed ==
  /\ stage # "none"
  /\ pc \in {"send", "wait", "sleep", "poll", "gotReceipt", "done"}
  /\ estimated = EstimateThrows

SendCalls == Len(sentTxs)

TokenTxs == {i \in 1..Len(sentTxs) : sentTxs[i].kind \in {"reset", "approve"}}
FundTxs == {i \in 1..Len(sentTxs) : sentTxs[i].kind = "fund"}

\* safeWaitForReceipt is in, or went through, its fallback polling
PollingStarted == waitError # "none"
InPollingLoop == pc \in {"sleep", "poll"}
ReceiptByPolling == PollingStarted /\ receipt # "none"
PollingTimedOut ==
  /\ pc = "done"
  /\ PollingStarted
  /\ receipt = "none"
  /\ attempts = MaxPollAttempts

SingleTxOps ==
  {"withdrawTokens", "setClaimParameters", "setWhitelistBatch",
   "setCustomClaimAmountsBatch", "resetAllClaims", "updateFaucetName",
   "deleteFaucet", "addAdmin", "removeAdmin"} \cup CreateOps

MaxOf(a, b) == IF a >= b THEN a ELSE b

(***************************************************************************)
(* C1: an administration operation called with chainId # networkId never   *)
(* calls signer.sendTransaction and, once it has settled, has rejected     *)
(* with the network-mismatch error.                                        *)
(***************************************************************************)
C1_NetworkMismatchSubmitsNothing ==
  (op \in AdminOps /\ chainId # networkId) =>
     /\ SendCalls = 0
     /\ pc \in {"validate", "done"}
     /\ pc = "done" => (outcome = "rejected" /\ error \in NetworkMismatchMessages)

C1_Witness ==
  /\ op \in AdminOps
  /\ chainId # networkId
  /\ pc = "done"
  /\ outcome = "rejected"
  /\ error = NetworkMismatchMessage(op)

(***************************************************************************)
(* C2: createFaucet and createFaucetWithValidation called with             *)
(* chainId # networkId submit no transaction to the factory.               *)
(***************************************************************************)
C2_CreateRefusesOnMismatch ==
  (op \in {"createFaucet", "createFaucetWithValidation"} /\ chainId # networkId) =>
     /\ SendCalls = 0
     /\ outcome # "resolved"

(***************************************************************************)
(* C3 as stated: the gasLimit of every submitted transaction is            *)
(* max(estimate * 1.2, fallback floor), hence at least the floor and       *)
(* never zero.                                                             *)
(***************************************************************************)
C3_GasLimitIsMaxOfEstimateAndFloor ==
  Submitted =>
     /\ gasLimit = MaxOf(IF estimated = EstimateThrows THEN 0
                           ELSE (estimated * 12) \div 10,
                         FallbackGas(op, LastTx.kind))
     /\ gasLimit >= FallbackGas(op, LastTx.kind)
     /\ gasLimit > 0

(***************************************************************************)
(* C3 amended: the gasLimit of every submitted transaction is the estimate *)
(* plus 20 % (rounded down) when provider.estimateGas answered, and the    *)
(* operation's fallback exactly when it threw; it is never unset, and it   *)
(* is zero only when the estimate is zero.                                 *)
(***************************************************************************)
C3_GasLimitIsBufferedEstimateOrFallback ==
  Submitted =>
     /\ gasLimit \in Nat
     /\ estimated # EstimateThrows =>
          /\ gasLimit * 10 <= estimated * 12
          /\ estimated * 12 < gasLimit * 10 + 10
     /\ estimated = EstimateThrows => gasLimit = FallbackGas(op, LastTx.kind)
     /\ gasLimit = 0 => estimated = 0

C3_Witness ==
  /\ Submitted
  /\ estimated = 21000
  /\ gasLimit = 25200
  /\ gasLimit < FallbackGas(op, LastTx.kind)

(***************************************************************************)
(* C4 as stated: when provider.estimateGas throws, the operation goes on   *)
(* with its fallback limit (100000 native fund off Celo, 1500000 create,   *)
(* 5000000 whitelist / custom-amount batch), calls sendTransaction with    *)
(* it and, once the last transaction is confirmed, resolves with the       *)
(* transaction hash.                                                       *)
(***************************************************************************)
C4_EstimateFailureStillResolvesWithHash ==
  EstimateFailed =>
     /\ (op = "fundFaucet" /\ stage = "native") => gasLimit = 100000
     /\ op \in CreateOps => gasLimit = 1500000
     /\ op \in {"setWhitelistBatch", "setCustomClaimAmountsBatch"} => gasLimit = 5000000
     /\ pc # "send" => (SendCalls > 0 /\ LastTx.kind = stage)
     /\ (pc = "done" /\ receipt = "success") =>
          (outcome = "resolved" /\ result = "txHash")

(***************************************************************************)
(* C4 amended: as C4, except that a create operation resolves with the     *)
(* address of the created faucet, and only when the confirmed receipt      *)
(* carries a FaucetCreated log (it rejects otherwise); every other         *)
(* operation resolves with the transaction hash.                           *)
(***************************************************************************)
C4_EstimateFailureFallsBackAndCompletes ==
  EstimateFailed =>
     /\ (op = "fundFaucet" /\ stage = "native") => gasLimit = 100000
     /\ op \in CreateOps => gasLimit = 1500000
     /\ op \in {"setWhitelistBatch", "setCustomClaimAmountsBatch"} => gasLimit = 5000000
     /\ pc # "send" => (SendCalls > 0 /\ LastTx.kind = stage)
     /\ (pc = "done" /\ receipt = "success" /\ op \notin CreateOps) =>
          (outcome = "resolved" /\ result = "txHash")
     /\ (pc = "done" /\ receipt = "success" /\ op \in CreateOps) =>
          IF LastTx.event
            THEN outcome = "resolved" /\ result = "faucetAddress"
            ELSE outcome = "rejected"

C4_Witness ==
  /\ EstimateFailed
  /\ op = "fundFaucet"
  /\ stage = "native"
  /\ ~isCeloNetwork(chainId)
  /\ gasLimit = 100000
  /\ outcome = "resolved"
  /\ result = "txHash"

(***************************************************************************)
(* C5: in the token path of fundFaucet the approve transactions sent       *)
(* before the fund transaction depend on the allowance only: two (reset,   *)
(* approve) when 0 < allowance < amount, one when allowance = 0 < amount,  *)
(* none when allowance >= amount; a call that resolves has sent exactly    *)
(* one fund transaction, after them.                                       *)
(***************************************************************************)
C5_ApprovalsFollowAllowance ==
  (op = "fundFaucet" /\ SendCalls > 0 /\ LastTx.kind # "native") =>
     /\ FundTxs # {} =>
          /\ Cardinality(TokenTxs) =
               IF currentAllowance >= amount THEN 0
               ELSE IF currentAllowance = 0 THEN 1
               ELSE 2
          /\ (0 < currentAllowance /\ currentAllowance < amount) =>
               (sentTxs[1].kind = "reset" /\ sentTxs[2].kind = "approve")
          /\ (currentAllowance = 0 /\ 0 < amount) => sentTxs[1].kind = "approve"
          /\ FundTxs = {Len(sentTxs)}
     /\ outcome = "resolved" => Cardinality(FundTxs) = 1

C5_Witness ==
  /\ op = "fundFaucet"
  /\ outcome = "resolved"
  /\ 0 < currentAllowance
  /\ currentAllowance < amount
  /\ Len(sentTxs) = 3
  /\ sentTxs[3].kind = "fund"

(***************************************************************************)
(* C6: once tx.wait() failed with a compatibility error the loop sleeps    *)
(* 2 s before each getTransactionReceipt, polls at most 30 times, counts   *)
(* a poll that throws or finds nothing as an attempt, leaves the loop at   *)
(* the first poll that yields a receipt and returns that receipt, and      *)
(* always leaves the loop.                                                 *)
(***************************************************************************)
C6_PollingInvariant ==
  /\ polls <= MaxPollAttempts
  /\ sleeps <= MaxPollAttempts
  /\ sleeps * PollIntervalMs <= 60000
  /\ sleeps = IF pc = "poll" THEN polls + 1 ELSE polls
  /\ InPollingLoop => (PollingStarted /\ receipt = "none" /\ attempts = polls)
  /\ polls > 0 => PollingStarted
  /\ ReceiptByPolling =>
       /\ ~InPollingLoop
       /\ polls = attempts + 1
       /\ receipt = LastTx.status
  /\ (PollingStarted /\ pc = "done" /\ receipt = "none") =>
       (polls = MaxPollAttempts /\ executorError # "none" /\ outcome = "rejected")

C6_PollingIsBoundedAndTerminates ==
  /\ []C6_PollingInvariant
  /\ InPollingLoop ~> ~InPollingLoop

C6_Witness ==
  /\ ReceiptByPolling
  /\ polls = 7
  /\ sleeps = 7
  /\ attempts = 6
  /\ pc = "gotReceipt"

(***************************************************************************)
(* C7: a receipt found by the fallback polling counts as a confirmation    *)
(* only when its status is 1; an operation never resolves when one of its  *)
(* transactions was mined reverted.                                        *)
(***************************************************************************)
C7_PolledRevertIsNotSuccess ==
  /\ (pc = "done" /\ ReceiptByPolling) => receipt = "success"
  /\ outcome = "resolved" =>
       \A i \in 1..Len(sentTxs) : sentTxs[i].status # "reverted"

C9_PollingBypassesWallet ==
  (/\ pc = "done"
   /\ walletBlocksReceipts
   /\ PollingStarted
   /\ LastTx.status = "success"
   /\ LastTx.minedAt = "beforePolling") =>
     /\ receipt = "success"
     /\ executorError = "none"

(***************************************************************************)
(* C10: a single-transaction operation calls sendTransaction at most once, *)
(* exactly once when it resolves, and rejects once its transaction is      *)
(* rejected by the user, reverted on chain or timed out.                   *)
(***************************************************************************)
C10_OneSendAndTerminalRejects ==
  op \in SingleTxOps =>
     /\ SendCalls <= 1
     /\ outcome = "resolved" => SendCalls = 1
     /\ (/\ pc = "done"
         /\ SendCalls = 1
         /\ \/ LastTx.status \in {"rejected", "reverted"}
            \/ PollingTimedOut) => outcome = "rejected"

\* the part of C10 about the number of sendTransaction calls
C10_SendCallsOnly ==
  op \in SingleTxOps =>
     /\ SendCalls <= 1
     /\ outcome = "resolved" => SendCalls = 1
     /\ (pc = "done" /\ SendCalls = 1 /\ (LastTx.status = "rejected" \/ PollingTimedOut))
          => outcome = "rejected"

(***************************************************************************)
(* C11: once the transaction of an administration operation is confirmed,  *)
(* a failure of an off-chain collaborator (the analytics report, the       *)
(* metadata deletion of deleteFaucet) never rejects the operation: it      *)
(* resolves with the transaction hash, and deleteFaucet has still run its  *)
(* remaining steps (the report and the cache eviction).                    *)
(***************************************************************************)
C11_OffchainFailureNeverRejects ==
  (pc = "done" /\ receipt = "success" /\ op \in AdminOps) =>
     /\ outcome = "resolved"
     /\ result = "txHash"
     /\ op = "deleteFaucet" =>
          /\ offchain.metadata \in MetadataResponses
          /\ offchain.report \in {"delivered", "failed"}
          /\ offchain.cacheDeleted
          /\ divvi = 1

C11_Witness ==
  /\ op = "deleteFaucet"
  /\ pc = "done"
  /\ receipt = "success"
  /\ offchain.metadata = "unreachable"
  /\ offchain.report = "failed"
  /\ offchain.cacheDeleted
  /\ outcome = "resolved"
  /\ result = "txHash"

(***************************************************************************)
(* Vocabulary of the detector properties.                                  *)
(***************************************************************************)
\* the accessors a faucet of dialect d answers, besides name()
DialectAccessors(d) ==
  CASE d = "droplist" -> {"name", "isWhitelisted"}
    [] d = "custom"   -> {"name", "getCustomClaimAmount"}
    [] OTHER          -> {"name", "claimAmount"}

\* every run so far returned r
EveryDetectionIs(r) == \A i \in 1..Len(detections) : detections[i] = r

\* the dialect-specific probe of every loop iteration throws
NoFaucetProbeConclusive ==
  /\ ~ProbeReturns("dropcode", "claimAmount", accessors, rpcFails, abiForeign)
  /\ ~ProbeReturns("droplist", "isWhitelisted", accessors, rpcFails, abiForeign)
  /\ ~ProbeReturns("custom", "getCustomClaimAmount", accessors, rpcFails, abiForeign)

C13_DetectorsNeverThrow ==
  /\ \A i \in 1..Len(detections) : detections[i] \in Dialects
  /\ (target = "faucet" /\ NoFaucetProbeConclusive) => EveryDetectionIs("dropcode")
  /\ (target = "factory" /\ \A t \in Dialects : factoryAnswers[t] = "notFound") =>
       EveryDetectionIs("dropcode")

C13_Witness ==
  /\ target = "faucet"
  /\ "name" \notin accessors
  /\ rpcFails # {}
  /\ detections # <<>>
  /\ detections[1] = "dropcode"

C15_CreateResolvesWithEventAddress ==
  op \in CreateOps =>
     /\ outcome = "resolved" =>
          /\ receipt # "none"
          /\ LastTx.event
          /\ result = "faucetAddress"
     /\ (pc = "done" /\ receipt # "none" /\ ~LastTx.event) =>
          (outcome = "rejected" /\ result = "none")

C15_Witness ==
  /\ op = "createCustomFaucet"
  /\ pc = "done"
  /\ receipt = "success"
  /\ LastTx.event
  /\ outcome = "resolved"
  /\ result = "faucetAddress"

(***************************************************************************)
(* C16: when an operation fails with revert data that starts with a known  *)
(* selector (0x118cdaa7, 0xbec6425c, 0x9b23d3d9, 0xe8930e56, 0x55f33f14)   *)
(* its rejection message is the human-readable category of that selector;  *)
(* for any other revert data it is an opaque on-chain error.               *)
(***************************************************************************)
C16_RevertDataIsDecoded ==
  (pc = "done" /\ sentTxs # <<>> /\ LastTx.status = "refused"
     /\ LastTx.revertData # NoRevertData) =>
     /\ outcome = "rejected"
     /\ IF LastTx.revertData.selector \in
             {ErrorSignatures.OwnableUnauthorizedAccount,
              ErrorSignatures.ContractPaused, ErrorSignatures.OnlyAdmin,
              ErrorSignatures.EmptyName, ErrorSignatures.NotWhitelisted}
          THEN error = decodeRevertError(LastTx.revertData)
          ELSE error \in {"Unknown contract error occurred",
                          "execution reverted (unknown custom error)"}

(***************************************************************************)
(* C17: setWhitelistBatch calls signer.sendTransaction only when the       *)
(* resolved dialect (the caller's hint, else the detected one) is          *)
(* droplist, setCustomClaimAmountsBatch only when it is custom and         *)
(* resetClaimedStatus only when it is dropcode; with any other dialect     *)
(* the operation rejects and has sent nothing.                             *)
(***************************************************************************)
C17_DialectRestrictedOperations ==
  /\ (op = "setWhitelistBatch" /\ SendCalls > 0) => detectedFaucetType = "droplist"
  /\ (op = "setCustomClaimAmountsBatch" /\ SendCalls > 0) => detectedFaucetType = "custom"
  /\ (op = "resetClaimedStatus" /\ SendCalls > 0) => detectedFaucetType = "dropcode"
  /\ \/ op = "setWhitelistBatch" /\ detectedFaucetType \in Dialects \ {"droplist"}
     \/ op = "setCustomClaimAmountsBatch" /\ detectedFaucetType \in Dialects \ {"custom"}
     \/ op = "resetClaimedStatus" /\ detectedFaucetType \in Dialects \ {"dropcode"}
     => /\ pc = "done"
        /\ outcome = "rejected"
        /\ SendCalls = 0

C17_Witness ==
  /\ op = "setCustomClaimAmountsBatch"
  /\ detectedFaucetType = "droplist"
  /\ pc = "done"
  /\ outcome = "rejected"
  /\ error = "Only for custom faucets"
  /\ SendCalls = 0

(***************************************************************************)
(* C18: the claim-history cache has a 1-hour freshness window of its own:  *)
(* whatever the interleaving of fetchStorageData and fetchCheckInData      *)
(* calls, fetchStorageData returns the cached claims without reading the   *)
(* chain's claims only if they were written less than one hour earlier.    *)
(***************************************************************************)
C18_ClaimCacheHasOwnFreshnessWindow ==
  (served.fn = "fetchStorageData" /\ served.from = "cache") =>
     served.age < CACHE_DURATION

(***************************************************************************)
(* C19: retrieveSecretCode returns the cached secret code only while it    *)
(* is less than one hour old; an older one is not returned.                *)
(***************************************************************************)
C19_SecretCodeExpiresAfterOneHour ==
  (served.fn = "retrieveSecretCode" /\ served.from = "cache") =>
     served.age < CACHE_DURATION

(***************************************************************************)
(* C19 amended: retrieveSecretCode returns the cached code whenever a      *)
(* well-formed one is stored for the faucet, whatever its age (the entry   *)
(* carries no timestamp); the backend is asked only when none is stored,   *)
(* so a code found in storage after such a call was written by that call.  *)
(***************************************************************************)
C19_SecretCodeServedWheneverCached ==
  served.fn = "retrieveSecretCode" =>
     /\ served.from \in {"cache", "backend", "error"}
     /\ served.from = "cache" =>
          (storage.secretCode.present /\ served.age = served.at - storage.secretCode.writtenAt)
     /\ (served.from # "cache" /\ storage.secretCode.present) =>
          storage.secretCode.writtenAt = served.at

C19_Witness ==
  /\ served.fn = "retrieveSecretCode"
  /\ served.from = "cache"
  /\ served.age >= CACHE_DURATION
  /\ storage.secretCode.present

(***************************************************************************)
(* Vocabulary of the fan-out properties.                                   *)
(***************************************************************************)
InFlight == started - settled

\* every request issued before the slice now in flight has settled
EarlierBatchesSettled ==
  started > 0 => settled >= ((started - 1) \div BatchSize) * BatchSize

C21_FactoryDetectionFirstConclusiveWins ==
  target = "factory" =>
     EveryDetectionIs(
       IF factoryAnswers["dropcode"] # "notFound" THEN "dropcode"
       ELSE IF factoryAnswers["droplist"] # "notFound" THEN "droplist"
       ELSE IF factoryAnswers["custom"] # "notFound" THEN "custom"
       ELSE "dropcode")

C21_Witness ==
  /\ target = "factory"
  /\ factoryAnswers["dropcode"] = "notFound"
  /\ factoryAnswers["droplist"] = "otherError"
  /\ factoryAnswers["custom"] = "ok"
  /\ detections # <<>>
  /\ detections[1] = "droplist"

(***************************************************************************)
(* Vocabulary of the fundFaucet ordering properties.                       *)
(***************************************************************************)
\* position of a transaction kind in the token path
KindRank(k) ==
  CASE k = "reset"   -> 1
    [] k = "approve" -> 2
    [] OTHER         -> 3

\* the transactions of the token path are sent in the order reset, approve,
\* fund, each after a receipt of the one before it exists
TokenPathInOrder ==
  \A i \in 1..Len(sentTxs) : \A j \in 1..Len(sentTxs) :
     i < j =>
       /\ KindRank(sentTxs[i].kind) < KindRank(sentTxs[j].kind)
       /\ sentTxs[i].status \in {"success", "reverted"}

\* a reset or approve transaction that the wallet refused or that reverted
FailedTokenTxs ==
  {i \in TokenTxs : sentTxs[i].status \in {"rejected", "refused", "reverted"}}

(***************************************************************************)
(* C22: in the token path of fundFaucet the transactions are sent in the   *)
(* order reset, approve, fund, each only after the receipt of the previous *)
(* one has been obtained; when the reset or the approve transaction is     *)
(* rejected or fails to confirm, no fund transaction is sent and the       *)
(* operation rejects.                                                      *)
(***************************************************************************)
C22_FundOnlyAfterConfirmedApprovals ==
  (op = "fundFaucet" /\ stage # "native") =>
     /\ TokenPathInOrder
     /\ FailedTokenTxs # {} =>
          /\ FundTxs = {}
          /\ pc = "done" => outcome = "rejected"

\* the part of C22 that does not depend on the status of a polled receipt
C22_OrderAndRefusals ==
  (op = "fundFaucet" /\ stage # "native") =>
     /\ TokenPathInOrder
     /\ (\E i \in TokenTxs : sentTxs[i].status \in {"rejected", "refused"}) =>
          /\ FundTxs = {}
          /\ pc = "done"
          /\ outcome = "rejected"

(***************************************************************************)
(* C29: an error of tx.wait() that is no receipt-compatibility error (its  *)
(* message holds neither "support" nor "eth_getTransactionReceipt", its    *)
(* code is neither 4200 nor UNKNOWN_ERROR) is rethrown as it is, at once,  *)
(* without a sleep or a getTransactionReceipt poll; and when the polling   *)
(* is exhausted the error thrown is the error tx.wait() threw.             *)
(***************************************************************************)
C29_OtherWaitErrorsRethrownWithoutPolling ==
  /\ executorError \in {"E_REVERT", "E_NETWORK"} =>
       /\ pc = "done"
       /\ outcome = "rejected"
       /\ error = WrapError(op, executorError)
       /\ waitError = "none"
       /\ sleeps = 0
       /\ polls = 0
  /\ (PollingStarted \/ sleeps > 0 \/ polls > 0) =>
       \/ ErrorCode(waitError) \in {"4200", "UNKNOWN_ERROR"}
       \/ ErrorWords(waitError) \cap {"support", "eth_getTransactionReceipt"} # {}
  /\ PollingTimedOut =>
       /\ executorError = waitError
       /\ polls = MaxPollAttempts

C29_Witness ==
  /\ pc = "done"
  /\ SendCalls > 0
  /\ LastTx.status = "reverted"
  /\ executorError = "E_REVERT"
  /\ ErrorCode(executorError) = "CALL_EXCEPTION"
  /\ polls = 0
  /\ outcome = "rejected"

(***************************************************************************)
(* Vocabulary of the permission check of setClaimParameters.               *)
(***************************************************************************)
\* the signer is the owner or an admin of the faucet, letter case aside
SignerIsOwnerOrAdmin ==
  \E a \in {onChain.owner} \cup onChain.admins :
     toLowerCase(a) = toLowerCase(signerAddress)

PermissionCheckPassed == onChain.readable /\ ~onChain.paused /\ SignerIsOwnerOrAdmin

(***************************************************************************)
(* C30: setClaimParameters submits a transaction only if, at the           *)
(* permission check, the faucet is not paused and the signer is its owner  *)
(* or one of its admins, compared without regard to letter case; when the  *)
(* faucet is paused, the signer is neither, or the check itself fails, it  *)
(* rejects with no transaction submitted, and it answers "Not authorized"  *)
(* only to a signer that is neither.                                       *)
(***************************************************************************)
C30_ParametersNeedUnpausedOwnerOrAdmin ==
  op = "setClaimParameters" =>
     /\ SendCalls > 0 => PermissionCheckPassed
     /\ (pc \notin {"idle", "validate", "prepare"} /\ ~PermissionCheckPassed) =>
          /\ pc = "done"
          /\ outcome = "rejected"
          /\ SendCalls = 0
     /\ error = "Not authorized" => ~SignerIsOwnerOrAdmin
     /\ error = "Faucet is paused" => onChain.paused
     /\ error = "Failed to check permissions" => ~onChain.readable

C30_Witness ==
  /\ op = "setClaimParameters"
  /\ onChain.owner = "0xCD"
  /\ onChain.admins = {"0xab"}
  /\ signerAddress = "0xAB"
  /\ SendCalls = 1
  /\ outcome = "resolved"

(***************************************************************************)
(* Vocabulary of the check-in sync properties.                             *)
(***************************************************************************)
\* the persisted last-processed-block marker and per-date totals
Marker == storage.CHECKIN_LAST_BLOCK
StoredCounts == storage.CHECKIN_DATA.transactionsByDate

MarkerNeverDecreases == [][storage'.CHECKIN_LAST_BLOCK >= Marker]_vars

MarkerAdvancesWithSave ==
  [][storage'.CHECKIN_LAST_BLOCK # Marker =>
       /\ storage'.CHECKIN_DATA.present
       /\ storage'.CHECKIN_DATA.writtenAt = now
       /\ \A b \in Blocks :
            (Marker < b /\ b <= storage'.CHECKIN_LAST_BLOCK) =>
               storage'.CHECKIN_DATA.transactionsByDate[b] >= 1]_vars

NoEventCountedTwice == \A b \in Blocks : StoredCounts[b] <= 1

(***************************************************************************)
(* C23: across any sequence of fetchCheckInData calls, overlapping ones    *)
(* included, the persisted last-processed-block marker never decreases, it *)
(* advances only together with a save of the event data processed up to    *)
(* that block, and no CheckedIn event is counted more than once in the     *)
(* persisted per-date totals.                                              *)
(***************************************************************************)
C23_MarkerMonotoneEventsCountedOnce ==
  [][/\ storage'.CHECKIN_LAST_BLOCK >= Marker
     /\ storage'.CHECKIN_LAST_BLOCK # Marker =>
          /\ storage'.CHECKIN_DATA.present
          /\ storage'.CHECKIN_DATA.writtenAt = now
          /\ \A b \in Blocks :
               (Marker < b /\ b <= storage'.CHECKIN_LAST_BLOCK) =>
                  storage'.CHECKIN_DATA.transactionsByDate[b] >= 1
     /\ \A b \in Blocks : storage'.CHECKIN_DATA.transactionsByDate[b] <= 1]_vars

(***************************************************************************)
(* C24: a re-sync never loses persisted check-in history: after a          *)
(* fetchCheckInData call that saves, the stored per-date counts hold       *)
(* everything stored before the call plus the newly processed events,      *)
(* also when the call runs after the 1-hour freshness window has expired   *)
(* while the last-processed-block marker is still present.                 *)
(***************************************************************************)
C24_ResyncKeepsStoredHistory ==
  [][storage'.CHECKIN_DATA # storage.CHECKIN_DATA =>
       \A b \in Blocks :
          /\ storage'.CHECKIN_DATA.transactionsByDate[b] >= StoredCounts[b]
          /\ (Marker < b /\ b <= storage'.CHECKIN_LAST_BLOCK) =>
               storage'.CHECKIN_DATA.transactionsByDate[b] >= 1]_vars

(***************************************************************************)
(* C25: when deleteFaucet resolves for a faucet, faucetDetailsCache holds  *)
(* no entry for that faucet on that network, so that the next lookup of    *)
(* getAllClaims / getAllClaimsFromFactoryTransactions for it fetches the   *)
(* details again instead of serving the snapshot cached before.            *)
(***************************************************************************)
C25_DeleteFaucetEvictsCachedDetails ==
  [][(op = "deleteFaucet" /\ outcome # "resolved" /\ outcome' = "resolved") =>
        CacheKey(chainId, FaucetAddress) \notin faucetDetailsCache']_vars

(***************************************************************************)
(* Vocabulary of the wallet-session properties.                            *)
(***************************************************************************)
\* a wallet is connected: it has an authorised account; lib/utils keeps no
\* session, there the injected wallet object it talks to is the connection
WalletConnected == variant = "injected" \/ wallet.account # "none"

EnsureReturns == ensure.pc # "returned" /\ ensure'.pc = "returned"

(***************************************************************************)
(* C26: in every wallet-session variant ensureCorrectNetwork returns true  *)
(* only if, when it returns, a wallet is connected and its active chain is *)
(* the required one; it returns false whenever the connect attempt or the  *)
(* chain-switch request failed (the chain-not-added error 4902 for a chain *)
(* other than Celo included).                                              *)
(***************************************************************************)
C26_EnsureTrueMeansConnectedOnRequiredChain ==
  [][EnsureReturns =>
       /\ ensure'.result =>
            (WalletConnected' /\ wallet'.chain = ensure'.required)
       /\ (ensure'.connectFailed \/ ensure'.switchFailed) => ~ensure'.result]_vars

(***************************************************************************)
(* C27: whenever the session reports isConnected, the signer it exposes is *)
(* the signer of the address it exposes: after an accountsChanged event    *)
(* with another account it never shows the new address next to the signer  *)
(* of the previous account.                                                *)
(***************************************************************************)
C27_SignerBelongsToExposedAddress ==
  isConnected => session.signer = session.address

(***************************************************************************)
(* C28: in the wagmi-backed session, once the connection inputs are        *)
(* disconnected or disconnect() was called, provider and signer are null   *)
(* and stay null until a new connection is made, also when a provider /    *)
(* signer setup that was awaiting getSigner() completes afterwards.        *)
(***************************************************************************)
C28_NoProviderOrSignerWhileDisconnected ==
  (variant = "wagmi" /\ wallet.account = "none") =>
     (~session.provider /\ session.signer = "none")

====
